---- MODULE Spec2Model ----
(***************************************************************************)
(* The retrieval engine of the chat assistant (RAGService), its text       *)
(* utilities (createSimpleEmbedding, cosineSimilarity, extractKeywords)    *)
(* and the part of the chat handler that drives it.                        *)
(*                                                                         *)
(* Text is a TLA+ string; Chars(s) is its sequence of one-character        *)
(* strings.  Numbers the code keeps as IEEE doubles are kept exactly: an   *)
(* embedding entry is the fraction num[i]/den, a similarity is the real    *)
(* d/sqrt(m) and NaN is a flag.  Comparisons of scores are decided in      *)
(* exact integer arithmetic (on base-10000 digit strings where a product   *)
(* would not fit a machine integer).                                       *)
(***************************************************************************)
EXTENDS Integers, Sequences, FiniteSets, TLC

(***************************************************************************)
(* Characters and strings                                                  *)
(***************************************************************************)
Chars(s) == [i \in 1..Len(s) |-> SubSeq(s, i, i)]


LowerCaseLetters == Chars("abcdefghijklmnopqrstuvwxyz")
UpperCaseLetters == Chars("ABCDEFGHIJKLMNOPQRSTUVWXYZ")
Digits == Chars("0123456789")

Range(f) == {f[i] : i \in DOMAIN f}

\* An array given element by element, its elements computed once.
Array(f) == f \o <<>>

LowerCaseSet == Range(LowerCaseLetters)
UpperCaseSet == Range(UpperCaseLetters)
WordCharSet  == LowerCaseSet \cup UpperCaseSet \cup Range(Digits) \cup {"_"}
SpaceCharSet == {" ", "\n", "\t", "\r"}

\* charCodeAt(i) - 97 for the letters a..z: 0..25.
LetterCode == [c \in LowerCaseSet |-> (CHOOSE i \in 1..26 : LowerCaseLetters[i] = c) - 1]
LowerOf == [c \in UpperCaseSet |-> LowerCaseLetters[CHOOSE i \in 1..26 : UpperCaseLetters[i] = c]]

\* normalizedText.charCodeAt(i) - 97: the position of a letter a..z as 0..25,
\* and -1 for every character whose code is outside 97..122.
LetterIndex(c) == IF c \in LowerCaseSet THEN LetterCode[c] ELSE -1

\* String.prototype.toLowerCase on one character (ASCII).
LowerChar(c) == IF c \in UpperCaseSet THEN LowerOf[c] ELSE c

RECURSIVE LowerRange(_, _, _)
\* The characters lo..hi of s in lower case, by halves.
LowerRange(s, lo, hi) ==
  IF lo > hi THEN ""
  ELSE IF lo = hi THEN LowerChar(SubSeq(s, lo, lo))
  ELSE LowerRange(s, lo, (lo + hi) \div 2) \o LowerRange(s, (lo + hi) \div 2 + 1, hi)

toLowerCase(s) == LowerRange(s, 1, Len(s))

\* The regular-expression classes \w and \s.
IsWordChar(c) == c \in WordCharSet
IsSpaceChar(c) == c \in SpaceCharSet

\* String.prototype.includes: needle occurs as a contiguous substring.
includes(hay, needle) ==
  \E i \in 1..(Len(hay) - Len(needle) + 1) :
    SubSeq(hay, i, i + Len(needle) - 1) = needle

\* Array.prototype.includes / Array.prototype.filter(...).length
arrayIncludes(arr, x) == \E i \in 1..Len(arr) : arr[i] = x

(***************************************************************************)
(* Exact arithmetic on naturals too large for a machine integer: a number  *)
(* is its sequence of base-10000 digits, least significant first.          *)
(***************************************************************************)
DigitBase == 10000

RECURSIVE BigOf(_)
BigOf(n) == IF n < DigitBase THEN <<n>> ELSE <<n % DigitBase>> \o BigOf(n \div DigitBase)

RECURSIVE BigAddC(_, _, _)
BigAddDigit(a, b, t) ==
  <<t % DigitBase>> \o
  BigAddC(IF a = <<>> THEN <<>> ELSE Tail(a),
          IF b = <<>> THEN <<>> ELSE Tail(b), t \div DigitBase)

BigAddC(a, b, carry) ==
  IF a = <<>> /\ b = <<>>
    THEN IF carry = 0 THEN <<>> ELSE <<carry>>
    ELSE BigAddDigit(a, b, (IF a = <<>> THEN 0 ELSE Head(a))
                           + (IF b = <<>> THEN 0 ELSE Head(b)) + carry)
BigAdd(a, b) == BigAddC(a, b, 0)

RECURSIVE BigMulDigit(_, _, _)
BigMulStep(a, k, t) == <<t % DigitBase>> \o BigMulDigit(Tail(a), k, t \div DigitBase)

BigMulDigit(a, k, carry) ==
  IF a = <<>>
    THEN IF carry = 0 THEN <<>> ELSE <<carry>>
    ELSE BigMulStep(a, k, Head(a) * k + carry)

RECURSIVE BigMul(_, _)
BigMul(a, b) ==
  IF b = <<>> THEN <<>>
  ELSE BigAdd(BigMulDigit(a, Head(b), 0), <<0>> \o BigMul(a, Tail(b)))

RECURSIVE BigTrim(_)
BigTrim(a) ==
  IF a # <<>> /\ a[Len(a)] = 0 THEN BigTrim(SubSeq(a, 1, Len(a) - 1)) ELSE a

RECURSIVE BigCmpFrom(_, _, _)
BigCmpFrom(a, b, i) ==
  IF i = 0 THEN 0
  ELSE IF a[i] > b[i] THEN 1
  ELSE IF a[i] < b[i] THEN -1
  ELSE BigCmpFrom(a, b, i - 1)

CmpTrimmed(x, y) ==
  IF Len(x) > Len(y) THEN 1
  ELSE IF Len(x) < Len(y) THEN -1
  ELSE BigCmpFrom(x, y, Len(x))

\* -1, 0 or 1 as a < b, a = b or a > b.
BigCmp(a, b) == CmpTrimmed(BigTrim(a), BigTrim(b))

RECURSIVE BigSubB(_, _, _)
BigSubDigit(a, b, t) ==
  <<IF t < 0 THEN t + DigitBase ELSE t>> \o
  BigSubB(Tail(a), IF b = <<>> THEN <<>> ELSE Tail(b), IF t < 0 THEN 1 ELSE 0)

\* a - b for a >= b.
BigSubB(a, b, borrow) ==
  IF a = <<>> THEN <<>>
  ELSE BigSubDigit(a, b, Head(a) - (IF b = <<>> THEN 0 ELSE Head(b)) - borrow)

BigSub(a, b) == BigSubB(a, b, 0)

BigProd3(x, y, z) == BigMul(BigMul(BigOf(x), BigOf(y)), BigOf(z))

(***************************************************************************)
(* Numbers of the scoring pass.  A score is the real d/sqrt(m) + b/20, or  *)
(* NaN: cosineSimilarity yields d and m, the keyword boost adds to b in    *)
(* twentieths (0.15 = 3/20, 0.05 = 1/20).                                  *)
(***************************************************************************)
BoostUnit == 20
ManualKeywordWeight == 3
AutoKeywordWeight == 1

NaN == [nan |-> TRUE, d |-> 0, m |-> 1, b |-> 0]

BigSquare(a) == BigMul(a, a)

\* (20 d)^2 * m
Weighted(d, m) == BigMul(BigOf(BoostUnit * BoostUnit), BigProd3(d, d, m))

\* c^2 * m_s * m_t
BoostTerm(c, s, t) == BigProd3(c * c, s.m, t.m)

\* (40 c x m n)^2 for x = d/sqrt(m): 1600 c^2 d^2 m n^2
CrossTerm(c, d, m, n) ==
  BigMul(BigMul(BigOf(4 * BoostUnit * BoostUnit * c * c), BigProd3(d, d, m)),
         BigProd3(n, n, 1))

\* For c >= 0, with Pt = 400 d_t^2 m_s and R = 400 d_s^2 m_t + c^2 m_s m_t:
\* s > t  iff  40 c x_s m_s m_t > Pt - R.
GreaterAhead(s, t, c, Pt, R) ==
  IF BigCmp(Pt, R) < 0 THEN TRUE
  ELSE BigCmp(CrossTerm(c, s.d, s.m, t.m), BigSquare(BigSub(Pt, R))) > 0

\* For c < 0, with Ps = 400 d_s^2 m_t and R = 400 d_t^2 m_s + c^2 m_s m_t:
\* s > t  iff  Ps - R > 40 (-c) x_t m_s m_t.
GreaterBehind(s, t, c, Ps, R) ==
  IF BigCmp(Ps, R) <= 0 THEN FALSE
  ELSE BigCmp(BigSquare(BigSub(Ps, R)), CrossTerm(c, t.d, t.m, s.m)) > 0

\* With c = s.b - t.b and x = d/sqrt(m):  s > t  iff  20 x_s + c > 20 x_t.
GreaterBy(s, t, c) ==
  IF c >= 0
    THEN GreaterAhead(s, t, c, Weighted(t.d, s.m),
                      BigAdd(Weighted(s.d, t.m), BoostTerm(c, s, t)))
    ELSE GreaterBehind(s, t, c, Weighted(s.d, t.m),
                       BigAdd(Weighted(t.d, s.m), BoostTerm(c, s, t)))

\* s > t for two scores that are not NaN.
ScoreGreater(s, t) == GreaterBy(s, t, s.b - t.b)

\* The number s - t of JavaScript: NaN, or else the sign of the difference.
ScoreMinus(s, t) ==
  IF s.nan \/ t.nan THEN [nan |-> TRUE, sign |-> 0]
  ELSE IF ScoreGreater(s, t) THEN [nan |-> FALSE, sign |-> 1]
  ELSE IF ScoreGreater(t, s) THEN [nan |-> FALSE, sign |-> -1]
  ELSE [nan |-> FALSE, sign |-> 0]

\* x > y of JavaScript on a difference: false for NaN.
IsPositive(diff) == ~diff.nan /\ diff.sign > 0

(***************************************************************************)
(* createSimpleEmbedding and cosineSimilarity                              *)
(***************************************************************************)
EmbeddingSize == 26

\* The loop over normalizedText from position i on: embedding[charCode]++ for
\* the codes 0..25, so that an entry grows by the number of positions that
\* hold its letter.
CountCodes(codes, i, embedding) ==
  Array([k \in 1..EmbeddingSize |->
           embedding[k] + Cardinality({j \in i..Len(codes) : codes[j] = k - 1})])

CountLetters(normalizedText, i, embedding) ==
  CountCodes(Array([j \in 1..Len(normalizedText) |->
                      LetterIndex(SubSeq(normalizedText, j, j))]),
             i, embedding)

RECURSIVE SumTo(_, _)
SumTo(arr, i) == IF i = 0 THEN 0 ELSE arr[i] + SumTo(arr, i - 1)

\* The counts left as they are, without the division by their sum.
Normalized_raw(counts, sum) == [num |-> counts, den |-> 1]

Normalized(counts, sum) == [num |-> counts, den |-> IF sum > 0 THEN sum ELSE 1]
Normalize(counts) == Normalized(counts, SumTo(counts, EmbeddingSize))

\* The vector of 26 entries num[i]/den: the counts divided by their sum when
\* the sum is positive, the counts (all 0) otherwise.
createSimpleEmbedding(text) ==
  Normalize(CountLetters(toLowerCase(text), 1, Array([i \in 1..EmbeddingSize |-> 0])))

RECURSIVE DotNum(_, _, _)
DotNum(a, b, i) == IF i = 0 THEN 0 ELSE a[i] * b[i] + DotNum(a, b, i - 1)

\* dotProduct / (Math.sqrt(normA) * Math.sqrt(normB)): 0/0 is NaN.
Quotient(dotProduct, normA, normB) ==
  IF normA = 0 \/ normB = 0 THEN NaN
  ELSE [nan |-> FALSE, d |-> dotProduct, m |-> normA * normB, b |-> 0]

Norm(vec) == DotNum(vec.num, vec.num, Len(vec.num))

\* cosineSimilarity without its test of the lengths: a missing entry is
\* undefined and the result NaN.
cosineSimilarity_unchecked(vecA, vecB) ==
  [threw |-> FALSE,
   value |-> IF Len(vecA.num) # Len(vecB.num) THEN NaN
             ELSE Quotient(DotNum(vecA.num, vecB.num, Len(vecA.num)),
                           Norm(vecA), Norm(vecB))]

\* cosineSimilarity that throws on a vector of norm 0.
cosineSimilarity_strict(vecA, vecB) ==
  IF Len(vecA.num) # Len(vecB.num) \/ Norm(vecA) = 0 \/ Norm(vecB) = 0
    THEN [threw |-> TRUE, value |-> NaN]
    ELSE [threw |-> FALSE,
          value |-> Quotient(DotNum(vecA.num, vecB.num, Len(vecA.num)),
                             Norm(vecA), Norm(vecB))]

\* [threw |-> TRUE] for vectors of different lengths; otherwise the score
\* dotProduct / (sqrt(normA) * sqrt(normB)), which is 0/0 = NaN when a norm is 0.
cosineSimilarity(vecA, vecB) ==
  IF Len(vecA.num) # Len(vecB.num)
    THEN [threw |-> TRUE, value |-> NaN]
    ELSE [threw |-> FALSE,
          value |-> Quotient(DotNum(vecA.num, vecB.num, Len(vecA.num)),
                             Norm(vecA), Norm(vecB))]

(***************************************************************************)
(* Array.prototype.sort(comparefn) as the runtime (V8, TimSort) performs   *)
(* it on an array of fewer than 64 elements: the minimum run length is the *)
(* array length, so the sort is one CountAndMakeRun followed by one        *)
(* BinaryInsertionSort.  cmp[<<x, y>>] is comparefn's result after the     *)
(* runtime has replaced NaN by 0.  For a consistent comparefn the result   *)
(* is the stable sort; for an inconsistent one it is what this algorithm   *)
(* leaves.                                                                 *)
(***************************************************************************)
Reverse(arr) == Array([i \in 1..Len(arr) |-> arr[Len(arr) + 1 - i]])

RECURSIVE RunLength(_, _, _, _)
\* The run arr[1..r] goes on while each element is strictly below the one
\* before it (a descending run) or not below it (an ascending run).
RunLength(cmp, arr, descending, r) ==
  IF r < Len(arr) /\ ((cmp[<<arr[r + 1], arr[r]>>] < 0) = descending)
    THEN RunLength(cmp, arr, descending, r + 1)
    ELSE r

RunFrom(cmp, arr, descending) ==
  [length |-> RunLength(cmp, arr, descending, 2), descending |-> descending]

\* The length of the run that starts the array, and whether it is strictly
\* descending (and so reversed in place).
CountRun(arr, cmp) == RunFrom(cmp, arr, cmp[<<arr[2], arr[1]>>] < 0)

MakeRun(arr, run) ==
  IF run.descending
    THEN Reverse(SubSeq(arr, 1, run.length)) \o SubSeq(arr, run.length + 1, Len(arr))
    ELSE arr

RECURSIVE BinarySearch(_, _, _, _, _)
\* Indices are 0-based as in the runtime: the element at index i is arr[i + 1].
BinarySearch(cmp, arr, pivot, left, right) ==
  IF left < right
    THEN IF cmp[<<pivot, arr[left + ((right - left) \div 2) + 1]>>] < 0
           THEN BinarySearch(cmp, arr, pivot, left, left + ((right - left) \div 2))
           ELSE BinarySearch(cmp, arr, pivot, left + ((right - left) \div 2) + 1, right)
    ELSE left

\* arr with arr[start] moved to index left (0-based) of the sorted prefix.
InsertAt(arr, start, left) ==
  SubSeq(arr, 1, left) \o <<arr[start]>> \o
  SubSeq(arr, left + 1, start - 1) \o SubSeq(arr, start + 1, Len(arr))

RECURSIVE BinaryInsertionSort(_, _, _)
\* arr[1..start-1] is the sorted prefix; insert arr[start], arr[start+1], ...
BinaryInsertionSort(cmp, arr, start) ==
  IF start > Len(arr) THEN arr
  ELSE BinaryInsertionSort(cmp,
         InsertAt(arr, start, BinarySearch(cmp, arr, arr[start], 0, start - 1)),
         start + 1)

SortFromRun(cmp, arr, run) ==
  BinaryInsertionSort(cmp, MakeRun(arr, run), run.length + 1)

\* cmp is comparefn as a function on the pairs of elements of arr.
ArraySort(arr, cmp) ==
  IF Len(arr) < 2 THEN arr ELSE SortFromRun(cmp, arr, CountRun(arr, cmp))

SliceEnd(n, end) ==
  IF end < 0 THEN (IF n + end < 0 THEN 0 ELSE n + end)
  ELSE IF end > n THEN n ELSE end

\* Array.prototype.slice(0, end), end possibly negative.
SliceFromStart(arr, end) == SubSeq(arr, 1, SliceEnd(Len(arr), end))

(***************************************************************************)
(* extractKeywords                                                         *)
(***************************************************************************)
MinWordLength == 2
MaxKeywords == 10

stopWords ==
  {"a", "an", "the", "and", "or", "but", "is", "are", "was", "were", "be",
   "been", "being", "in", "on", "at", "to", "for", "with", "by", "about",
   "against", "between", "into", "through", "during", "before", "after",
   "above", "below", "from", "up", "down", "of", "off", "over", "under"}

Kept(c) == IF IsWordChar(c) \/ IsSpaceChar(c) THEN c ELSE ""

\* replace(/[^\w\s]/g, "")
RECURSIVE KeptRange(_, _, _)
\* The kept characters among lo..hi of s, by halves.
KeptRange(s, lo, hi) ==
  IF lo > hi THEN ""
  ELSE IF lo = hi THEN Kept(SubSeq(s, lo, lo))
  ELSE KeptRange(s, lo, (lo + hi) \div 2) \o KeptRange(s, (lo + hi) \div 2 + 1, hi)

RemovePunctuation(s) == KeptRange(s, 1, Len(s))

IsSpaceAt(s, i) == IsSpaceChar(SubSeq(s, i, i))

\* A piece without white space starts (ends) at position i.
IsPieceStart(s, i) == ~IsSpaceAt(s, i) /\ (i = 1 \/ IsSpaceAt(s, i - 1))
IsPieceEnd(s, i) == ~IsSpaceAt(s, i) /\ (i = Len(s) \/ IsSpaceAt(s, i + 1))

\* The pieces from their first and last positions, in order.
PiecesBetween(s, starts, ends) ==
  Array([n \in 1..Len(starts) |-> SubSeq(s, starts[n], ends[n])])

PiecesIn(s, positions) ==
  PiecesBetween(s, SelectSeq(positions, LAMBDA i : IsPieceStart(s, i)),
                   SelectSeq(positions, LAMBDA i : IsPieceEnd(s, i)))

\* split(/\s+/): the pieces between maximal runs of white space; a text that
\* starts (ends) with white space, and the empty text, give an empty first
\* (last) piece.
SplitWhitespace(s) ==
  (IF Len(s) = 0 \/ IsSpaceAt(s, 1) THEN <<"">> ELSE <<>>)
  \o PiecesIn(s, Array([i \in 1..Len(s) |-> i]))
  \o (IF Len(s) > 0 /\ IsSpaceAt(s, Len(s)) THEN <<"">> ELSE <<>>)

\* wordCounts.set(word, (wordCounts.get(word) || 0) + 1)
CountWord(entries, w) ==
  IF \E i \in 1..Len(entries) : entries[i].word = w
    THEN Array([i \in 1..Len(entries) |->
                  IF entries[i].word = w
                    THEN [entries[i] EXCEPT !.count = @ + 1]
                    ELSE entries[i]])
    ELSE Append(entries, [word |-> w, count |-> 1])

RECURSIVE CountWords(_, _)
\* The entries of the Map wordCounts, in insertion order.
CountWords(words, entries) ==
  IF words = <<>> THEN entries
  ELSE CountWords(Tail(words), CountWord(entries, Head(words)))

\* The comparison by ascending count.
CompareCounts_ascending(a, b) == a.count - b.count

\* (a, b) => b[1] - a[1]
CompareCounts(a, b) == b.count - a.count

\* The tokens without the filter on length and stop words.
Words_unfiltered(text) == SplitWhitespace(RemovePunctuation(toLowerCase(text)))

\* .split(/\s+/).filter((word) => word.length > 2 && !stopWords.has(word))
Words(text) ==
  SelectSeq(SplitWhitespace(RemovePunctuation(toLowerCase(text))),
            LAMBDA w : Len(w) > MinWordLength /\ w \notin stopWords)

\* .sort((a, b) => b[1] - a[1])
SortedByCount(entries) ==
  ArraySort(entries, [p \in Range(entries) \X Range(entries) |-> CompareCounts(p[1], p[2])])

\* .map((entry) => entry[0])
WordsOf(entries) == Array([i \in 1..Len(entries) |-> entries[i].word])

extractKeywords(text) ==
  WordsOf(SliceFromStart(SortedByCount(CountWords(Words(text), <<>>)),
                         MaxKeywords))

(***************************************************************************)
(* RAGService                                                              *)
(*                                                                         *)
(* A KnowledgeChunk is [id, title, content, keywords, relatedChunks]; the  *)
(* optional relatedChunks is [some |-> FALSE, ids |-> <<>>] when absent.   *)
(* An EnhancedKnowledgeChunk adds embedding and autoKeywords.              *)
(***************************************************************************)
VARIABLES
  chunks,         \* RAGService.chunks: the corpus, in insertion order
  isInitialized,  \* RAGService.isInitialized
  systemPrompt,   \* RAGService.systemPrompt
  chunkMap,       \* RAGService.chunkMap: id -> the chunk object stored under it
  last,           \* the last call made on the engine, its arguments and outcome
  source,         \* the initialize call the corpus comes from, and how many built one
  config,         \* the config object of the config route
  requests,       \* the chat-simple POST requests in flight: where each one is
  widget          \* the state of the chat widget (ChatInterface) and its requests

engineVars == <<chunks, isInitialized, systemPrompt, chunkMap>>
chatVars == <<config, requests, widget>>

Undefined == [some |-> FALSE, ids |-> <<>>]
Related(ids) == [some |-> TRUE, ids |-> ids]

This == [chunks |-> chunks, isInitialized |-> isInitialized,
         systemPrompt |-> systemPrompt, chunkMap |-> chunkMap]

\* A chunk that arrives as unchecked JSON may lack its keywords: the field is
\* then undefined in JavaScript, and absent from the record here.
HasKeywords(chunk) == "keywords" \in DOMAIN chunk

\* {...chunk, embedding, autoKeywords}: the fields the chunk has, and the two.
EnhanceWith(chunk, fullText) ==
  IF HasKeywords(chunk)
    THEN [id |-> chunk.id, title |-> chunk.title, content |-> chunk.content,
          keywords |-> chunk.keywords, relatedChunks |-> chunk.relatedChunks,
          embedding |-> createSimpleEmbedding(fullText),
          autoKeywords |-> extractKeywords(fullText)]
    ELSE [id |-> chunk.id, title |-> chunk.title, content |-> chunk.content,
          relatedChunks |-> chunk.relatedChunks,
          embedding |-> createSimpleEmbedding(fullText),
          autoKeywords |-> extractKeywords(fullText)]

\* (chunk) => ({...chunk, embedding, autoKeywords})
Enhance(chunk) == EnhanceWith(chunk, chunk.title \o "\n\n" \o chunk.content)

\* knowledgeChunks.map(...)
EnhanceAll(knowledgeChunks) ==
  Array([i \in 1..Len(knowledgeChunks) |-> Enhance(knowledgeChunks[i])])

\* [...chunk.keywords, ...chunk.autoKeywords].filter(k => other has k).length
KeywordOverlap(chunk, other) ==
  Len(SelectSeq(chunk.keywords \o chunk.autoKeywords,
                LAMBDA k : arrayIncludes(other.keywords, k) \/ arrayIncludes(other.autoKeywords, k)))

MinKeywordOverlap == 2
\* The threshold 0.6 as the score 3/sqrt(25).
SimilarityThreshold == [nan |-> FALSE, d |-> 3, m |-> 25, b |-> 0]

\* The keyword overlap of lines 66-68 throws a TypeError: the spread of
\* chunk.keywords when it is undefined, or otherChunk.keywords.includes in the
\* filter's callback, which runs when the spread list has an element.
OverlapThrows(chunk, other) ==
  \/ ~HasKeywords(chunk)
  \/ /\ ~HasKeywords(other)
     /\ Len(chunk.keywords \o chunk.autoKeywords) > 0

IsRelatedTo(chunk, other) ==
  \/ KeywordOverlap(chunk, other) >= MinKeywordOverlap
  \/ IsPositive(ScoreMinus(cosineSimilarity(chunk.embedding, other.embedding).value,
                           SimilarityThreshold))

\* No chunk counts as curated.
HasCuratedRelations_never(chunk) == FALSE

HasCuratedRelations(chunk) == chunk.relatedChunks.some /\ Len(chunk.relatedChunks.ids) > 0

IdsOf(arr) == Array([j \in 1..Len(arr) |-> arr[j].id])

RECURSIVE InferFrom(_, _)
\* The inner loop for the chunk at position i, others being the chunks with
\* another id.  A throw of the keyword overlap or of cosineSimilarity leaves
\* the chunks before i assigned and the rest as built.
InferFor(arr, i, others) ==
  IF \E j \in 1..Len(others) :
       \/ OverlapThrows(arr[i], others[j])
       \/ cosineSimilarity(arr[i].embedding, others[j].embedding).threw
    THEN [threw |-> TRUE, chunks |-> arr]
    ELSE InferFrom([arr EXCEPT ![i].relatedChunks =
                      Related(IdsOf(SelectSeq(others, LAMBDA o : IsRelatedTo(arr[i], o))))],
                   i + 1)

\* The outer loop of inferChunkRelationships from position i on.
InferFrom(arr, i) ==
  IF i > Len(arr) THEN [threw |-> FALSE, chunks |-> arr]
  ELSE IF HasCuratedRelations(arr[i]) THEN InferFrom(arr, i + 1)
  ELSE InferFor(arr, i, SelectSeq(arr, LAMBDA o : o.id # arr[i].id))

inferChunkRelationships(arr) == InferFrom(arr, 1)

\* The Map after this.chunkMap.set(chunk.id, enhancedChunk) for every chunk of
\* arr in order: a later chunk with the same id replaces an earlier one, and
\* the stored objects are the ones of arr (relationship inference updates them
\* in place).
MapSetAll(map, arr) ==
  [id \in (DOMAIN map) \cup {arr[i].id : i \in 1..Len(arr)} |->
     IF \E i \in 1..Len(arr) : arr[i].id = id
       THEN arr[CHOOSE i \in 1..Len(arr) :
                  arr[i].id = id /\ \A j \in (i + 1)..Len(arr) : arr[j].id # id]
       ELSE map[id]]

\* The engine after lines 26-49 of initialize, inferred being the outcome of
\* inferChunkRelationships on the enhanced chunks.
Built(this, prompt, inferred) ==
  [threw |-> inferred.threw,
   built |-> TRUE,
   this  |-> [chunks        |-> inferred.chunks,
              isInitialized |-> ~inferred.threw,
              systemPrompt  |-> prompt,
              chunkMap      |-> MapSetAll(this.chunkMap, inferred.chunks)]]

Unchanged(this) == [threw |-> FALSE, built |-> FALSE, this |-> this]

\* initialize that adds the enhanced chunks to the corpus on every call.
initialize_appending(this, knowledgeChunks, prompt) ==
  Built(this, prompt, inferChunkRelationships(this.chunks \o EnhanceAll(knowledgeChunks)))

\* initialize that never sets isInitialized.
initialize_flagless(this, knowledgeChunks, prompt) ==
  IF Len(this.chunks) > 0 /\ this.systemPrompt = prompt THEN Unchanged(this)
  ELSE [Built(this, prompt, inferChunkRelationships(EnhanceAll(knowledgeChunks)))
          EXCEPT !.this.isInitialized = this.isInitialized]

\* initialize that assigns the system prompt before its two guards.
initialize_promptFirst(this, knowledgeChunks, prompt) ==
  IF this.isInitialized THEN Unchanged([this EXCEPT !.systemPrompt = prompt])
  ELSE Built(this, prompt, inferChunkRelationships(EnhanceAll(knowledgeChunks)))

\* initialize without its first guard: a Ready engine is rebuilt when the
\* prompt differs.
initialize_unguarded(this, knowledgeChunks, prompt) ==
  IF Len(this.chunks) > 0 /\ this.systemPrompt = prompt THEN Unchanged(this)
  ELSE Built(this, prompt, inferChunkRelationships(EnhanceAll(knowledgeChunks)))

\* initialize(knowledgeChunks, systemPrompt): the engine afterwards, and whether
\* the call threw.
initialize(this, knowledgeChunks, prompt) ==
  IF this.isInitialized THEN Unchanged(this)
  ELSE IF Len(this.chunks) > 0 /\ this.systemPrompt = prompt THEN Unchanged(this)
  ELSE Built(this, prompt, inferChunkRelationships(EnhanceAll(knowledgeChunks)))

isReady(this) == this.isInitialized
getSystemPrompt(this) == this.systemPrompt
getChunkIds(this) == Array([i \in 1..Len(this.chunks) |-> this.chunks[i].id])

MaxCandidates == 50
MaxRelatedToAdd == 2

\* score + boost/20 of JavaScript: NaN stays NaN.
AddBoost(score, boost) == IF score.nan THEN score ELSE [score EXCEPT !.b = @ + boost]

\* A difference as the sort takes it: NaN counts as 0.
OrderOf(v) == IF v.nan THEN 0 ELSE v.sign

\* The comparefn with its operands exchanged: a.score - b.score.
CompareScores_ascending(a, b) == OrderOf(ScoreMinus(a.score, b.score))

\* comparefn (a, b) => b.score - a.score, NaN replaced by 0 by the sort.
CompareScores(a, b) == OrderOf(ScoreMinus(b.score, a.score))

\* The manual keyword test without toLowerCase on the keyword.
ManualKeywordMatches_caseSensitive(chunk, combinedQuery) ==
  Len(SelectSeq(chunk.keywords, LAMBDA k : includes(toLowerCase(combinedQuery), k)))

\* chunk.keywords.filter((k) => combinedQuery.toLowerCase().includes(k.toLowerCase())).length
ManualKeywordMatches(chunk, combinedQuery) ==
  Len(SelectSeq(chunk.keywords,
                LAMBDA k : includes(toLowerCase(combinedQuery), toLowerCase(k))))

AutoKeywordMatches(chunk, queryKeywords) ==
  Len(SelectSeq(chunk.autoKeywords, LAMBDA k : arrayIncludes(queryKeywords, k)))

\* AddAll without its two tests: every identifier is added.
AddAll_repeating(set, ids, topChunkIds) == set \o ids

RECURSIVE AddAll(_, _, _)
\* relatedChunkIds.add(id) for each id of ids that is not a top chunk id: the
\* Set in insertion order.
AddAll(set, ids, topChunkIds) ==
  IF ids = <<>> THEN set
  ELSE AddAll(IF arrayIncludes(topChunkIds, Head(ids)) \/ arrayIncludes(set, Head(ids))
                THEN set ELSE Append(set, Head(ids)),
              Tail(ids), topChunkIds)

RECURSIVE CollectRelated(_, _, _)
CollectRelated(set, topChunks, topChunkIds) ==
  IF topChunks = <<>> THEN set
  ELSE CollectRelated(
         IF Head(topChunks).relatedChunks.some
           THEN AddAll(set, Head(topChunks).relatedChunks.ids, topChunkIds)
           ELSE set,
         Tail(topChunks), topChunkIds)

RECURSIVE Join(_, _)
Join(parts, sep) ==
  IF parts = <<>> THEN ""
  ELSE IF Len(parts) = 1 THEN parts[1]
  ELSE parts[1] \o sep \o Join(Tail(parts), sep)

\* The section of a chunk without the note of related information.
FormatChunk_unmarked(chunk, topChunkIds) == "## " \o chunk.title \o "\n\n" \o chunk.content

FormatChunk(chunk, topChunkIds) ==
  "## " \o chunk.title
        \o (IF ~arrayIncludes(topChunkIds, chunk.id) THEN " (Related Information)" ELSE "")
        \o "\n\n" \o chunk.content

NotInitialized ==
  [threw |-> TRUE, error |-> "RAG Service not initialized", text |-> ""]

ThrewLengthMismatch ==
  [threw |-> TRUE, error |-> "Vectors must have the same length", text |-> ""]

\* item.chunk.keywords.filter on a chunk without keywords.
ThrewTypeError ==
  [threw |-> TRUE, error |-> "Cannot read properties of undefined", text |-> ""]

\* The candidates without the limit: the whole corpus.
ChunksToProcess_all(this) == this.chunks

\* this.chunks.length > 50 ? this.chunks.slice(0, 50) : this.chunks
ChunksToProcess(this) ==
  IF Len(this.chunks) > MaxCandidates
    THEN SubSeq(this.chunks, 1, MaxCandidates)
    ELSE this.chunks

\* manualKeywordMatches * 0.15 + autoKeywordMatches * 0.05, in twentieths.
KeywordBoost(chunk, combinedQuery, queryKeywords) ==
  ManualKeywordMatches(chunk, combinedQuery) * ManualKeywordWeight
  + AutoKeywordMatches(chunk, queryKeywords) * AutoKeywordWeight

\* Lines 100-120: the boosted score of every candidate as [pos, score], pos
\* being the candidate's position in the corpus.
Similarities(chunksToProcess, combinedQuery, queryEmbedding, queryKeywords) ==
  [threw |-> \E i \in 1..Len(chunksToProcess) :
               cosineSimilarity(queryEmbedding, chunksToProcess[i].embedding).threw,
   typeError |-> \E i \in 1..Len(chunksToProcess) : ~HasKeywords(chunksToProcess[i]),
   combinedQuery |-> combinedQuery,
   similarities |->
     IF \E i \in 1..Len(chunksToProcess) : ~HasKeywords(chunksToProcess[i]) THEN <<>>
     ELSE Array([i \in 1..Len(chunksToProcess) |->
        [pos   |-> i,
         score |-> AddBoost(
                     cosineSimilarity(queryEmbedding, chunksToProcess[i].embedding).value,
                     KeywordBoost(chunksToProcess[i], combinedQuery, queryKeywords))]])]

ScoreQuery(this, combinedQuery) ==
  Similarities(ChunksToProcess(this), combinedQuery,
               createSimpleEmbedding(combinedQuery), extractKeywords(combinedQuery))

\* Lines 90-120 of getRelevantContext: the combined query and the boosted
\* score of every candidate, or the throw of cosineSimilarity.
ScoreCandidates(this, query, conversationHistory) ==
  ScoreQuery(this, query \o " " \o conversationHistory)

\* .sort((a, b) => b.score - a.score)
SortedByScore(similarities) ==
  ArraySort(similarities,
            [p \in Range(similarities) \X Range(similarities) |-> CompareScores(p[1], p[2])])

\* Lines 122-170 of getRelevantContext, local variable by local variable; l
\* holds the ones assigned so far.
Ranked(scored) ==
  [combinedQuery |-> scored.combinedQuery,
   similarities  |-> scored.similarities,
   ranked        |-> SortedByScore(scored.similarities)]

TopOf(l, maxChunks) == l @@ [top |-> SliceFromStart(l.ranked, maxChunks)]

TopChunksOf(this, l) ==
  l @@ [topChunks |-> Array([i \in 1..Len(l.top) |-> this.chunks[l.top[i].pos]])]

TopChunkIdsOf(l) == l @@ [topChunkIds |-> IdsOf(l.topChunks)]

RelatedChunkIdsOf(l) ==
  l @@ [relatedChunkIds |-> CollectRelated(<<>>, l.topChunks, l.topChunkIds)]

\* .map((id) => this.chunkMap.get(id)).filter((chunk) => chunk !== undefined)
Resolve(this, ids) ==
  Array([i \in 1..Len(ids) |-> this.chunkMap[ids[i]]])

\* The related chunks when an identifier that does not resolve takes one of
\* the two places: the first two identifiers, then the lookup.
RelatedChunksOf_slotted(this, l) ==
  l @@ [relatedChunks |->
          Resolve(this, SelectSeq(SubSeq(l.relatedChunkIds, 1,
                                         IF Len(l.relatedChunkIds) < MaxRelatedToAdd
                                           THEN Len(l.relatedChunkIds) ELSE MaxRelatedToAdd),
                                  LAMBDA id : id \in DOMAIN this.chunkMap))]

RelatedChunksOf(this, l) ==
  l @@ [relatedChunks |->
          Resolve(this, SelectSeq(l.relatedChunkIds, LAMBDA id : id \in DOMAIN this.chunkMap))]

\* The combination without the limit on related chunks.
CombinedChunksOf_unlimited(l) == l @@ [combinedChunks |-> l.topChunks \o l.relatedChunks]

\* [...topChunks, ...relatedChunks.slice(0, Math.min(relatedChunks.length, 2))]
CombinedChunksOf(l) ==
  l @@ [combinedChunks |->
          l.topChunks \o
          SubSeq(l.relatedChunks, 1,
                 IF Len(l.relatedChunks) < MaxRelatedToAdd
                   THEN Len(l.relatedChunks) ELSE MaxRelatedToAdd)]

Formatted(l) ==
  [threw |-> FALSE, error |-> "",
   text |-> Join(Array([i \in 1..Len(l.combinedChunks) |->
                          FormatChunk(l.combinedChunks[i], l.topChunkIds)]),
                 "\n\n---\n\n"),
   combinedQuery |-> l.combinedQuery,
   similarities |-> l.similarities,
   ranked |-> l.ranked,
   top |-> l.top,
   topChunkIds |-> l.topChunkIds,
   relatedChunkIds |-> l.relatedChunkIds,
   combinedChunkIds |-> IdsOf(l.combinedChunks)]

\* Lines 122-170 of getRelevantContext: ranking, relationship expansion and
\* formatting, from the boosted scores.
SelectAndFormat(this, scored, maxChunks) ==
  Formatted(CombinedChunksOf(RelatedChunksOf(this,
    RelatedChunkIdsOf(TopChunkIdsOf(TopChunksOf(this, TopOf(Ranked(scored), maxChunks)))))))

\* getRelevantContext without its readiness check.
RelevantContext_unguarded(this, scored, maxChunks) ==
  IF scored.threw THEN ThrewLengthMismatch
  ELSE IF scored.typeError THEN ThrewTypeError
  ELSE SelectAndFormat(this, scored, maxChunks)

\* The outcome of getRelevantContext given the scoring pass it would run:
\* whether it threw, the returned text, and the values of its local variables.
RelevantContext(this, scored, maxChunks) ==
  IF ~this.isInitialized THEN NotInitialized
  ELSE IF scored.threw THEN ThrewLengthMismatch
  ELSE IF scored.typeError THEN ThrewTypeError
  ELSE SelectAndFormat(this, scored, maxChunks)

getRelevantContext(this, query, conversationHistory, maxChunks) ==
  RelevantContext(this, ScoreCandidates(this, query, conversationHistory), maxChunks)

\* The engine after a call that sorted this.chunks itself by score rather
\* than the array of scored candidates.
EngineAfterQuery_sortedInPlace(this, out) ==
  IF out.threw THEN this
  ELSE [this EXCEPT !.chunks =
          Array([i \in 1..Len(out.ranked) |-> this.chunks[out.ranked[i].pos]])
            \o SubSeq(this.chunks, Len(out.ranked) + 1, Len(this.chunks))]

\* The engine after a getRelevantContext call of outcome out: lines 85-171
\* assign to local variables and to the score of the objects the call made
\* for similarities, never to a field of this, of the map or of a chunk.
EngineAfterQuery(this, out) == this

(***************************************************************************)
(* Inputs                                                                  *)
(***************************************************************************)
MaxChunks == 3   \* longest knowledge base handed to initialize
MaxTop == 2      \* largest maxChunks asked of getRelevantContext

ChunkX == [id |-> "x", title |-> "Billing", content |-> "invoice payment refund",
           keywords |-> <<"billing", "invoice">>, relatedChunks |-> Undefined]
ChunkY == [id |-> "y", title |-> "Login", content |-> "password reset account",
           keywords |-> <<"login", "password">>, relatedChunks |-> Undefined]
\* The same text as x under another identifier, with a keyword in capitals and
\* curated relations, one of them to an identifier no chunk carries.
ChunkZ == [id |-> "z", title |-> "Billing", content |-> "invoice payment refund",
           keywords |-> <<"Refund">>, relatedChunks |-> Related(<<"y", "ghost">>)]
\* A chunk whose title and content hold no letter.
ChunkN == [id |-> "n", title |-> "2024", content |-> "10 + 20 = 30",
           keywords |-> <<>>, relatedChunks |-> Undefined]

ChunkPool == {ChunkX, ChunkY, ChunkZ, ChunkN}

RECURSIVE SeqsUpTo(_, _)
SeqsUpTo(S, n) ==
  IF n = 0 THEN {<<>>}
  ELSE LET shorter == SeqsUpTo(S, n - 1)
       IN shorter \cup {Append(q, x) : q \in {r \in shorter : Len(r) = n - 1}, x \in S}

\* A chunk repeating the refund question, with a curated list that names
\* itself, an identifier the corpus does not hold, y twice and more chunks
\* than a result takes.
ChunkW == [id |-> "w", title |-> "Refund", content |-> "how do I get a refund on my invoice",
           keywords |-> <<"refund", "invoice">>,
           relatedChunks |-> Related(<<"y", "ghost", "w", "n", "y", "z">>)]

\* A chunk whose only word shared with x is "invoice", and whose letters are
\* far from those of x.
ChunkK == [id |-> "k", title |-> "Zzz", content |-> "zzzz invoice",
           keywords |-> <<"zzz">>, relatedChunks |-> Undefined]

\* A chunk whose curated list is present and empty.
ChunkE == [id |-> "e", title |-> "Empty", content |-> "password",
           keywords |-> <<>>, relatedChunks |-> Related(<<>>)]

\* A second chunk with the identifier of x.
ChunkX2 == [id |-> "x", title |-> "Invoices", content |-> "refund rules",
            keywords |-> <<"invoice">>, relatedChunks |-> Undefined]

SpecialBases ==
  {<<ChunkW, ChunkY, ChunkN, ChunkZ>>, <<ChunkX, ChunkK>>, <<ChunkE, ChunkY>>,
   <<ChunkX, ChunkX2>>, <<ChunkX2, ChunkY, ChunkX>>}

\* Knowledge bases: the sequences of chunks of the pool with pairwise distinct
\* identifiers, and the special ones.
KnowledgeBases ==
  {kb \in SeqsUpTo(ChunkPool, MaxChunks) :
     \A i, j \in 1..Len(kb) : i # j => kb[i].id # kb[j].id} \cup SpecialBases

\* Corpora for the ranking of tied candidates: y, x, a chunk repeating the
\* refund question and z, in that order, with MaxBlank chunks that hold no
\* letter placed among them in every way.
MaxBlank == 3
BlankIds == <<"n1", "n2", "n3", "n4", "n5">>
ChunkH == [id |-> "h", title |-> "Refund", content |-> "how do I get a refund on my invoice",
           keywords |-> <<"refund", "invoice">>, relatedChunks |-> Undefined]
RankLettered == <<ChunkY, ChunkX, ChunkH, ChunkZ>>
BlankChunk(k) == [ChunkN EXCEPT !.id = BlankIds[k]]
BlanksBefore(S, i) == Cardinality({j \in S : j < i})
RankCorpus(S) ==
  Array([i \in 1..(Len(RankLettered) + MaxBlank) |->
           IF i \in S THEN BlankChunk(BlanksBefore(S, i) + 1)
                      ELSE RankLettered[i - BlanksBefore(S, i)]])
RankCorpora ==
  {RankCorpus(S) : S \in {T \in SUBSET (1..(Len(RankLettered) + MaxBlank)) :
                            Cardinality(T) = MaxBlank}}

\* Corpora longer than the candidate limit: filler chunks, then the chunk
\* repeating the refund question, then y.  The fillers number from two below
\* the limit to MaxExtra - 2 above it, so that the last two chunks stand on
\* each side of the limit.  Every chunk carries a curated list; the fillers
\* name the chunk repeating the question.
MaxExtra == 3
FillerChunk(i) ==
  [id |-> "f" \o Digits[(i \div 10) + 1] \o Digits[(i % 10) + 1],
   title |-> "Faq", content |-> "opening hours",
   keywords |-> <<"hours">>, relatedChunks |-> Related(<<"h">>)]
CapCorpus(n) ==
  Array([i \in 1..n |-> FillerChunk(i)])
    \o <<[ChunkH EXCEPT !.relatedChunks = Related(<<"y">>)],
         [ChunkY EXCEPT !.relatedChunks = Related(<<"h">>)]>>
CapCorpora == {CapCorpus(MaxCandidates - 2 + e) : e \in 0..MaxExtra}

\* Texts of up to MaxTextLen characters: two lower-case letters, an upper-case
\* letter, a digit and a space.
MaxTextLen == 3
TextChars == {"a", "B", "z", "1", " "}
RECURSIVE TextsUpTo(_)
TextsUpTo(n) ==
  IF n = 0 THEN {""}
  ELSE LET shorter == TextsUpTo(n - 1)
       IN shorter \cup {t \o c : t \in {u \in shorter : Len(u) = n - 1}, c \in TextChars}
Texts == TextsUpTo(MaxTextLen)

\* Texts of words: up to MaxHeadWords words of HeadWords joined by spaces,
\* alone or followed by ten more words.  The head words hold one word in two
\* spellings, a stop word, a word of two letters followed by a line break,
\* and a word of the tail.
MaxHeadWords == 3
HeadWords == {"Tax", "tax,", "the", "it\n", "bob"}
TailWords == "amy bob cat dog elk fox gnu hen ivy jay"
KeywordTexts ==
  {Join(h, " ") : h \in SeqsUpTo(HeadWords, MaxHeadWords)}
    \cup {Join(h, " ") \o " " \o TailWords : h \in SeqsUpTo(HeadWords, MaxHeadWords)}

\* Vectors of up to MaxVecLen entries 0 or 1, and one signature.
MaxVecLen == 2
Vectors ==
  {[num |-> v, den |-> 1] : v \in SeqsUpTo({0, 1}, MaxVecLen)}
    \cup {createSimpleEmbedding("ab")}

Prompts == {"You are Andrew.", "You are Mary."}

\* The query and conversationHistory of a getRelevantContext call.
Conversations ==
  {[query |-> "How do I get a refund on my invoice?", history |-> ""],
   [query |-> "", history |-> ""],
   [query |-> "42?", history |-> "user: 2024"],
   [query |-> "reset", history |-> "user: my Password\nassistant: ok"]}

(***************************************************************************)
(* The chat route and the config route: inputs                             *)
(***************************************************************************)
MaxRequests == 2   \* chat requests that can be in flight together
Requests == 1..MaxRequests

\* The config the config route starts with, cut down to two of its chunks with
\* their contents shortened and their relations kept within the two.
DefaultPrompt == "You are a helpful AI assistant called Andrew"
ChunkProfile == [id |-> "profile-picture-bio", title |-> "Profile Picture & Bio",
                 content |-> "Use the assigned picture",
                 keywords |-> <<"profile picture", "bio">>,
                 relatedChunks |-> Related(<<"posting-guidelines">>)]
ChunkPosting == [id |-> "posting-guidelines", title |-> "Posting Guidelines",
                 content |-> "Post 3 times daily",
                 keywords |-> <<"posting", "hashtags">>,
                 relatedChunks |-> Related(<<"profile-picture-bio">>)]
DefaultConfig == [systemPrompt |-> DefaultPrompt,
                  knowledgeBase |-> <<ChunkProfile, ChunkPosting>>]

\* A chunk of a posted knowledge base that has no keywords: the config route
\* stores data.knowledgeBase as it arrives.
ChunkM == [id |-> "m", title |-> "Misc", content |-> "misc notes",
           relatedChunks |-> Undefined]

\* Bodies of config POST requests; an absent field is undefined in the JSON.
ConfigUpdates ==
  {[hasPrompt |-> TRUE,  systemPrompt |-> "You are Mary.",
    hasKnowledgeBase |-> TRUE, knowledgeBase |-> <<ChunkX, ChunkY>>],
   [hasPrompt |-> FALSE, systemPrompt |-> "",
    hasKnowledgeBase |-> FALSE, knowledgeBase |-> <<>>]}

\* Bodies of config POST requests whose knowledge base holds a chunk without
\* keywords: with another chunk (relationship inference throws on the pair),
\* and alone (nothing to infer from).
MalformedUpdates ==
  {[hasPrompt |-> FALSE, systemPrompt |-> "",
    hasKnowledgeBase |-> TRUE, knowledgeBase |-> <<ChunkX, ChunkM>>],
   [hasPrompt |-> FALSE, systemPrompt |-> "",
    hasKnowledgeBase |-> TRUE, knowledgeBase |-> <<ChunkM>>]}

NoBody == [messages |-> <<>>, ragEnabled |-> TRUE, hasApiKey |-> FALSE]

Message(role, content) == [role |-> role, content |-> content]

\* Bodies of chat POST requests: messages, ragEnabled, and whether an API key
\* is at hand (userApiKey or the environment's).
ChatBodies ==
  {[messages |-> <<Message("user", "How do I get a refund on my invoice?")>>,
    ragEnabled |-> TRUE, hasApiKey |-> TRUE],
   [messages |-> <<Message("user", " Hello ")>>,
    ragEnabled |-> TRUE, hasApiKey |-> TRUE],
   [messages |-> <<Message("user", "posting"), Message("assistant", "ok"),
                   Message("user", "steps")>>,
    ragEnabled |-> TRUE, hasApiKey |-> FALSE],
   [messages |-> <<Message("user", "a"), Message("assistant", "b"),
                   Message("user", "c"), Message("user", "d"),
                   Message("user", "e"), Message("user", "f"),
                   Message("assistant", "g"), Message("user", "bio")>>,
    ragEnabled |-> TRUE, hasApiKey |-> TRUE]}

\* A request of the chat route: where its handler stands (pc), what it holds,
\* the model requests it has made (asked) and what they came to (results), and
\* the response once it has one.
NoConfig == [systemPrompt |-> "", knowledgeBase |-> <<>>]

NewRequest(body) ==
  [pc |-> "idle", body |-> body, needsRAG |-> FALSE, fetched |-> NoConfig,
   calledInitialize |-> FALSE, history |-> "", context |-> "", systemMessage |-> "",
   asked |-> <<>>, results |-> <<>>, status |-> 0, reply |-> ""]

\* The chat widget after its first render, with no stored conversation:
\* the state of ChatInterface that handleSubmit reads and writes, the requests
\* it has in flight (calls: where each handleSubmit stands), the identifiers
\* of the armed 45 second timers, the number of requests sent so far, and what
\* the last handler did.
NewWidget ==
  [input |-> "", isLoading |-> FALSE, messages |-> <<>>, error |-> "",
   calls |-> {}, timers |-> {}, sent |-> 0, event |-> "mounted"]

(***************************************************************************)
(* The engine driven through its public methods                            *)
(***************************************************************************)
NoSource == [count |-> 0, kb |-> <<>>, prompt |-> ""]

Init ==
  /\ chunks = <<>>
  /\ isInitialized = FALSE
  /\ systemPrompt = ""
  /\ chunkMap = <<>>
  /\ last = [op |-> "new", ready |-> FALSE, threw |-> FALSE]
  /\ source = NoSource
  /\ config = DefaultConfig
  /\ requests = [r \in Requests |-> NewRequest(NoBody)]
  /\ widget = NewWidget

\* The assignments to the fields of the engine by a call whose outcome is r.
Assign(r) ==
  /\ chunks' = r.this.chunks
  /\ isInitialized' = r.this.isInitialized
  /\ systemPrompt' = r.this.systemPrompt
  /\ chunkMap' = r.this.chunkMap

\* source after an initialize call of outcome r.
SourceAfter(r, kb, prompt) ==
  IF r.built
    THEN [count |-> source.count + 1, kb |-> kb, prompt |-> prompt]
    ELSE source

\* One initialize call, with what the call is recorded as.
InitializeCall(kb, prompt) ==
  \E r \in {initialize(This, kb, prompt)} :
    /\ Assign(r)
    /\ last' = [op |-> "initialize", ready |-> isInitialized, threw |-> r.threw,
                built |-> r.built,
                sameAsSource |-> source.count > 0 /\ kb = source.kb
                                                  /\ prompt = source.prompt]
    /\ source' = SourceAfter(r, kb, prompt)
    /\ UNCHANGED chatVars

Initialize == \E kb \in KnowledgeBases, prompt \in Prompts : InitializeCall(kb, prompt)

\* One getRelevantContext call; scored is ScoreCandidates of its arguments.
GetRelevantContextCall(query, history, maxChunks, scored) ==
  \E r \in {RelevantContext(This, scored, maxChunks)} :
    /\ Assign([this |-> EngineAfterQuery(This, r)])
    /\ last' = [op |-> "getRelevantContext", ready |-> isInitialized,
                query |-> query, history |-> history, maxChunks |-> maxChunks,
                out |-> r, threw |-> r.threw]
    /\ UNCHANGED <<source, chatVars>>

GetRelevantContext ==
  \E c \in Conversations :
    \E scored \in {ScoreCandidates(This, c.query, c.history)} :
      \E maxChunks \in 0..MaxTop :
        GetRelevantContextCall(c.query, c.history, maxChunks, scored)

GetSystemPrompt ==
  /\ last' = [op |-> "getSystemPrompt", ready |-> isInitialized, threw |-> FALSE,
              result |-> getSystemPrompt(This)]
  /\ UNCHANGED <<engineVars, source, chatVars>>

IsReady ==
  /\ last' = [op |-> "isReady", ready |-> isInitialized, threw |-> FALSE,
              result |-> isReady(This)]
  /\ UNCHANGED <<engineVars, source, chatVars>>

GetChunkIds ==
  /\ last' = [op |-> "getChunkIds", ready |-> isInitialized, threw |-> FALSE,
              result |-> getChunkIds(This)]
  /\ UNCHANGED <<engineVars, source, chatVars>>

vars == <<chunks, isInitialized, systemPrompt, chunkMap, last, source, config, requests,
          widget>>

Next ==
  \/ Initialize
  \/ GetRelevantContext
  \/ GetSystemPrompt
  \/ IsReady
  \/ GetChunkIds

Spec == Init /\ [][Next]_vars

(***************************************************************************)
(* The engine over the corpora of RankCorpora                              *)
(***************************************************************************)
RankInitialize ==
  \E kb \in RankCorpora, prompt \in Prompts : InitializeCall(kb, prompt)

RankNext ==
  \/ RankInitialize
  \/ GetRelevantContext
  \/ GetSystemPrompt
  \/ IsReady
  \/ GetChunkIds

SpecRank == Init /\ [][RankNext]_vars

(***************************************************************************)
(* The engine over the corpora of CapCorpora                               *)
(***************************************************************************)
CapInitialize ==
  \E kb \in CapCorpora, prompt \in Prompts : InitializeCall(kb, prompt)

CapNext ==
  \/ CapInitialize
  \/ GetRelevantContext
  \/ GetSystemPrompt
  \/ IsReady
  \/ GetChunkIds

SpecCap == Init /\ [][CapNext]_vars

(***************************************************************************)
(* createSimpleEmbedding and extractKeywords applied to texts              *)
(***************************************************************************)
TextInit ==
  /\ chunks = <<>>
  /\ isInitialized = FALSE
  /\ systemPrompt = ""
  /\ chunkMap = <<>>
  /\ last \in {[op |-> "text", text |-> t] : t \in Texts}
               \cup {[op |-> "words", text |-> t] : t \in KeywordTexts}
  /\ source = NoSource
  /\ config = DefaultConfig
  /\ requests = [r \in Requests |-> NewRequest(NoBody)]
  /\ widget = NewWidget

CreateSimpleEmbedding ==
  /\ last.op = "text"
  /\ last' = [op |-> "createSimpleEmbedding", text |-> last.text,
              result |-> createSimpleEmbedding(last.text)]
  /\ UNCHANGED <<engineVars, source, chatVars>>

ExtractKeywords ==
  /\ last.op = "words"
  /\ last' = [op |-> "extractKeywords", text |-> last.text,
              result |-> extractKeywords(last.text)]
  /\ UNCHANGED <<engineVars, source, chatVars>>

TextNext ==
  \/ CreateSimpleEmbedding
  \/ ExtractKeywords

SpecText == TextInit /\ [][TextNext]_vars

(***************************************************************************)
(* cosineSimilarity applied to the vectors of Vectors, and the engine      *)
(***************************************************************************)
VecInit ==
  /\ chunks = <<>>
  /\ isInitialized = FALSE
  /\ systemPrompt = ""
  /\ chunkMap = <<>>
  /\ last \in {[op |-> "vectors", ready |-> FALSE, threw |-> FALSE,
                vecA |-> a, vecB |-> b] : a \in Vectors, b \in Vectors}
  /\ source = NoSource
  /\ config = DefaultConfig
  /\ requests = [r \in Requests |-> NewRequest(NoBody)]
  /\ widget = NewWidget

CosineSimilarity ==
  /\ last.op = "vectors"
  /\ \E r \in {cosineSimilarity(last.vecA, last.vecB)} :
       last' = [op |-> "cosineSimilarity", ready |-> isInitialized,
                vecA |-> last.vecA, vecB |-> last.vecB,
                threw |-> r.threw, value |-> r.value,
                error |-> IF r.threw THEN ThrewLengthMismatch.error ELSE ""]
  /\ UNCHANGED <<engineVars, source, chatVars>>

VecNext ==
  \/ CosineSimilarity
  \/ Next

SpecVec == VecInit /\ [][VecNext]_vars

(***************************************************************************)
(* The chat route: intent detection                                        *)
(***************************************************************************)
RECURSIVE TrimStart(_)
TrimStart(s) ==
  IF Len(s) > 0 /\ IsSpaceChar(SubSeq(s, 1, 1)) THEN TrimStart(SubSeq(s, 2, Len(s))) ELSE s

RECURSIVE TrimEnd(_)
TrimEnd(s) ==
  IF Len(s) > 0 /\ IsSpaceChar(SubSeq(s, Len(s), Len(s)))
    THEN TrimEnd(SubSeq(s, 1, Len(s) - 1)) ELSE s

trim(s) == TrimEnd(TrimStart(s))

startsWith(s, prefix) == Len(prefix) <= Len(s) /\ SubSeq(s, 1, Len(prefix)) = prefix
endsWith(s, suffix) ==
  Len(suffix) <= Len(s) /\ SubSeq(s, Len(s) - Len(suffix) + 1, Len(s)) = suffix

\* /\b(word)\b/ for a word that starts and ends with a word character.
MatchesWord(s, word) ==
  \E i \in 1..(Len(s) - Len(word) + 1) :
    /\ SubSeq(s, i, i + Len(word) - 1) = word
    /\ i = 1 \/ ~IsWordChar(SubSeq(s, i - 1, i - 1))
    /\ i + Len(word) > Len(s) \/ ~IsWordChar(SubSeq(s, i + Len(word), i + Len(word)))

greetingPatterns ==
  {"hi", "hello", "hey", "good morning", "good afternoon", "good evening",
   "hi there", "hello there", "hey there",
   "what's up", "whats up", "sup",
   "how are you", "how's it going", "hows it going"}

questionStarts ==
  {"what", "how", "when", "where", "why", "who", "which", "can", "could", "would",
   "should", "is", "are", "do", "does", "did"}

questionWords == {"help", "explain", "tell me", "show me", "guide", "tutorial", "steps"}

IntentOf(lowerMessage) ==
  IF lowerMessage \in greetingPatterns THEN "greeting"
  ELSE IF \/ endsWith(lowerMessage, "?")
          \/ \E w \in questionStarts : startsWith(lowerMessage, w)
          \/ \E w \in questionWords : MatchesWord(lowerMessage, w)
    THEN "question"
  ELSE "general"

detectIntent(message) == IntentOf(trim(toLowerCase(message)))

simplePatterns ==
  {"thanks", "thank you", "ok", "okay", "yes", "no", "sure",
   "bye", "goodbye", "see you", "talk to you later"}

needsKnowledgeBase(intent, message) ==
  IF intent = "greeting" THEN FALSE
  ELSE IF toLowerCase(trim(message)) \in simplePatterns THEN FALSE
  ELSE TRUE

\* The slice of the three messages before the last: messages.slice(-4, -1).
SliceRecent_three(messages) ==
  SubSeq(messages, (IF Len(messages) - 4 < 0 THEN 0 ELSE Len(messages) - 4) + 1,
         Len(messages) - 1)

\* messages.slice(-7, -1)
SliceRecent(messages) ==
  SubSeq(messages, (IF Len(messages) - 7 < 0 THEN 0 ELSE Len(messages) - 7) + 1,
         Len(messages) - 1)

\* .map((m) => `${m.role}: ${m.content}`).join("\n")
FormatHistory(recent) ==
  Join(Array([i \in 1..Len(recent) |-> recent[i].role \o ": " \o recent[i].content]), "\n")

recentHistory(messages) ==
  IF Len(messages) > 1 THEN FormatHistory(SliceRecent(messages)) ELSE ""

ContextChunks == 3   \* maxChunks the chat route asks for

(***************************************************************************)
(* The chat route and the config route: handlers                           *)
(*                                                                         *)
(* A handler runs without interruption from one await to the next; each    *)
(* action below is one such stretch of the chat POST handler for request   *)
(* r.  initialize holds no await, so the isReady() test and the whole body *)
(* of initialize are in the same stretch.                                  *)
(***************************************************************************)
UserQuery(messages) ==
  IF Len(messages) > 0 THEN messages[Len(messages)].content ELSE ""

\* The handler returns: its locals are gone, the response stays, with the
\* usedRAG flag of its body.
Respond(req, status, reply) ==
  [NewRequest(NoBody) EXCEPT !.pc = "done", !.needsRAG = req.needsRAG,
                             !.asked = req.asked, !.results = req.results,
                             !.status = status, !.reply = reply]

\* From the API key test to the first await of the primary model request.
ToModel(req) ==
  IF ~req.body.hasApiKey THEN Respond(req, 400, "no API key")
  ELSE [req EXCEPT !.pc = "primary", !.asked = Append(@, "primary")]

\* const { messages, ... } = await req.json() up to the await of the config fetch.
Started(body, userQuery, intent) ==
  [NewRequest(body) EXCEPT
     !.needsRAG = body.ragEnabled /\ needsKnowledgeBase(intent, userQuery)]

Routed(req) ==
  IF req.needsRAG THEN [req EXCEPT !.pc = "fetchConfig"]
  ELSE ToModel([req EXCEPT !.systemMessage = "You are Andrew AI"])

HandlerStart(r, body) ==
  /\ requests[r].pc = "idle"
  /\ requests' = [requests EXCEPT ![r] =
       Routed(Started(body, UserQuery(body.messages),
                      detectIntent(UserQuery(body.messages))))]
  /\ UNCHANGED <<engineVars, last, source, config, widget>>

\* GET of the config route, serving request r's fetch.
ConfigGet(r) ==
  /\ requests[r].pc = "fetchConfig"
  /\ requests' = [requests EXCEPT ![r].pc = "gotConfig", ![r].fetched = config]
  /\ UNCHANGED <<engineVars, last, source, config, widget>>

\* POST of the config route.
ConfigPost(data) ==
  /\ config' = [systemPrompt  |-> IF data.hasPrompt THEN data.systemPrompt
                                  ELSE config.systemPrompt,
                knowledgeBase |-> IF data.hasKnowledgeBase THEN data.knowledgeBase
                                  ELSE config.knowledgeBase]
  /\ UNCHANGED <<engineVars, last, source, requests, widget>>

\* The handler without its outer catch: an exception of getRelevantContext
\* leaves the handler, and the request has no response.
RetrievedWith_uncaught(req, this, out) ==
  IF out.threw THEN [req EXCEPT !.pc = "escaped"]
  ELSE ToModel([req EXCEPT !.context = out.text,
                           !.systemMessage = getSystemPrompt(this)])

\* The handler after getRelevantContext has returned or thrown out: an
\* exception goes to the outer catch, a result into the system message.
RetrievedWith(req, this, out) ==
  IF out.threw THEN Respond(req, 500, out.error)
  ELSE ToModel([req EXCEPT !.context = out.text,
                           !.systemMessage = getSystemPrompt(this)])

\* recentHistory, getRelevantContext and the system message, up to the await
\* of the primary model request.
Retrieved(req, this) ==
  RetrievedWith([req EXCEPT !.history = recentHistory(req.body.messages)], this,
    getRelevantContext(this, UserQuery(req.body.messages),
                       recentHistory(req.body.messages), ContextChunks))

\* The chat handler's call of initialize on an engine that is not ready.
CallInitialize(r, req) ==
  \E i \in {initialize(This, req.fetched.knowledgeBase, req.fetched.systemPrompt)} :
    /\ Assign(i)
    /\ source' = SourceAfter(i, req.fetched.knowledgeBase, req.fetched.systemPrompt)
    /\ requests' = [requests EXCEPT ![r] =
         IF i.threw THEN Respond([req EXCEPT !.fetched = NoConfig], 500, "initialize threw")
         ELSE [req EXCEPT !.pc = "retrieve", !.calledInitialize = TRUE,
                          !.fetched = NoConfig]]

\* After the config has arrived: getRagService(), the isReady() test and, on an
\* engine that is not ready, the call of initialize, up to the await of its
\* promise; on a ready engine the handler goes on to the retrieval.
EnsureInitialized(r) ==
  /\ requests[r].pc = "gotConfig"
  /\ IF ~isReady(This)
       THEN CallInitialize(r, requests[r])
       ELSE /\ requests' = [requests EXCEPT ![r] =
                             Retrieved([requests[r] EXCEPT !.fetched = NoConfig], This)]
            /\ UNCHANGED <<engineVars, source>>
  /\ UNCHANGED <<last, config, widget>>

\* The handler resumed after await ragService.initialize(...).
Retrieve(r) ==
  /\ requests[r].pc = "retrieve"
  /\ requests' = [requests EXCEPT ![r] = Retrieved(requests[r], This)]
  /\ UNCHANGED <<engineVars, last, source, config, widget>>

\* What a model request comes to: an answer, a response the handler takes as
\* a rate limit (status 429, or an error text with rate, limit or quota), or a
\* failure: the timeout's abort, another HTTP error, a body that is not JSON,
\* an answer without content.
ModelFailures == {"timeout", "httpError", "unparsable", "empty"}
ModelOutcomes == {"ok", "rateLimit"} \cup ModelFailures

ResultOf(outcome) == IF outcome \in ModelFailures THEN "failed" ELSE outcome

Settled(req, outcome) == [req EXCEPT !.results = Append(@, ResultOf(outcome))]

\* The primary attempt whose rate limit also goes on to the fallback model.
AfterPrimary_retrying(req, outcome) ==
  IF outcome = "ok" THEN Respond(Settled(req, outcome), 200, "answer")
  ELSE [Settled(req, outcome) EXCEPT !.pc = "fallback", !.asked = Append(@, "fallback")]

\* Lines 180-348: the primary attempt settles, and on a failure the catch
\* sends the request to the fallback model.
AfterPrimary(req, outcome) ==
  CASE outcome = "ok"        -> Respond(Settled(req, outcome), 200, "answer")
    [] outcome = "rateLimit" -> Respond(Settled(req, outcome), 429, "rate limit")
    [] OTHER                 -> [Settled(req, outcome) EXCEPT
                                   !.pc = "fallback", !.asked = Append(@, "fallback")]

\* Lines 303-438: the fallback attempt settles; when it fails too the handler
\* answers with the fixed apology, whose body has timedOut: true.
AfterFallback(req, outcome) ==
  CASE outcome = "ok"        -> Respond(Settled(req, outcome), 200, "fallback answer")
    [] outcome = "rateLimit" -> Respond(Settled(req, outcome), 429, "rate limit")
    [] OTHER                 -> Respond(Settled(req, outcome), 200, "apology, timedOut")

\* The primary model request settles.
PrimaryResponds(r, outcome) ==
  /\ requests[r].pc = "primary"
  /\ requests' = [requests EXCEPT ![r] = AfterPrimary(@, outcome)]
  /\ UNCHANGED <<engineVars, last, source, config, widget>>

\* The fallback model request settles.
FallbackResponds(r, outcome) ==
  /\ requests[r].pc = "fallback"
  /\ requests' = [requests EXCEPT ![r] = AfterFallback(@, outcome)]
  /\ UNCHANGED <<engineVars, last, source, config, widget>>

ChatNext ==
  \/ \E r \in Requests, body \in ChatBodies : HandlerStart(r, body)
  \/ \E r \in Requests : ConfigGet(r)
  \/ \E data \in ConfigUpdates : ConfigPost(data)
  \/ \E r \in Requests : EnsureInitialized(r)
  \/ \E r \in Requests : Retrieve(r)
  \/ \E r \in Requests, outcome \in ModelOutcomes : PrimaryResponds(r, outcome)
  \/ \E r \in Requests, outcome \in ModelOutcomes : FallbackResponds(r, outcome)

ChatSpec == Init /\ [][ChatNext]_vars

(***************************************************************************)
(* The two routes when the posted configuration is not checked: the config *)
(* route stores whatever knowledgeBase the body holds.                     *)
(***************************************************************************)
MalformedPost == \E data \in MalformedUpdates : ConfigPost(data)

\* The request these behaviours start: one that needs the knowledge base and
\* has an API key.  What the model answers plays no part: the primary model
\* answers.
FaultBodies == {b \in ChatBodies : Len(b.messages) = 1 /\ b.hasApiKey
                                     /\ needsKnowledgeBase(detectIntent(UserQuery(b.messages)),
                                                           UserQuery(b.messages))}

FaultNext ==
  \/ MalformedPost
  \/ \E data \in ConfigUpdates : ConfigPost(data)
  \/ \E r \in Requests, body \in FaultBodies : HandlerStart(r, body)
  \/ \E r \in Requests : ConfigGet(r)
  \/ \E r \in Requests : EnsureInitialized(r)
  \/ \E r \in Requests : Retrieve(r)
  \/ \E r \in Requests : PrimaryResponds(r, "ok")

FaultSpec == Init /\ [][FaultNext]_vars

(***************************************************************************)
(* The chat widget: handleSubmit from the submit event to its finally      *)
(* block.  The handler runs without interruption up to await fetch(...),   *)
(* then up to await response.text(), then to its end; React has rendered   *)
(* the new state before the next event is handled.                         *)
(***************************************************************************)
MaxSubmits == 2

\* What the user types.  The input element is disabled while isLoading
\* (line 481); handleInputChange itself has no test, and runs in every state
\* here.
Inputs == {"", "  ", " hi ", "ok"}

handleInputChange(w, value) == [w EXCEPT !.input = value, !.event = "typed"]

\* handleSubmit without its test of isLoading.
Submitted_whileLoading(w) ==
  IF trim(w.input) = "" THEN [w EXCEPT !.event = "ignored"]
  ELSE [w EXCEPT !.messages = Append(@, Message("user", trim(w.input))),
                 !.input = "", !.error = "", !.isLoading = TRUE,
                 !.sent = @ + 1,
                 !.calls = @ \cup {[id |-> w.sent + 1, pc |-> "fetch"]},
                 !.timers = @ \cup {w.sent + 1},
                 !.event = "sent"]

\* Lines 138-165: handleSubmit up to await fetch("/api/chat-simple", ...).
Submitted(w) ==
  IF trim(w.input) = "" \/ w.isLoading THEN [w EXCEPT !.event = "ignored"]
  ELSE [w EXCEPT !.messages = Append(@, Message("user", trim(w.input))),
                 !.input = "", !.error = "", !.isLoading = TRUE,
                 !.sent = @ + 1,
                 !.calls = @ \cup {[id |-> w.sent + 1, pc |-> "fetch"]},
                 !.timers = @ \cup {w.sent + 1},
                 !.event = "sent"]

\* Lines 183-191: fetch has resolved: clearTimeout, up to await response.text().
Resolved(w, call) ==
  [w EXCEPT !.calls = (@ \ {call}) \cup {[call EXCEPT !.pc = "text"]},
            !.timers = @ \ {call.id},
            !.event = "resolved"]

\* Lines 266-291: the catch block, then the finally block.
Failed(w, call, error) ==
  [w EXCEPT !.calls = @ \ {call}, !.error = error, !.isLoading = FALSE,
            !.event = "failed"]

\* Lines 234-265 and 288-291: the assistant message, then the finally block.
Replied(w, call) ==
  [w EXCEPT !.calls = @ \ {call},
            !.messages = Append(@, Message("assistant", "answer")),
            !.isLoading = FALSE, !.event = "answered"]

\* What the body of the response comes to: an answer, or one of the throws of
\* lines 193-232 (text() rejects, the text is not JSON, the status is not ok
\* or the body has an error, the response is empty).
BodyOutcomes == {"answer", "rejected", "invalidJSON", "errorStatus", "empty"}

BodySettled(w, call, outcome) ==
  IF outcome = "answer" THEN Replied(w, call) ELSE Failed(w, call, outcome)

\* The 45 second timer fires: controller.abort() rejects the fetch that is
\* still pending with an AbortError; on a request that is over it does nothing.
Aborted(w, id, pending) ==
  IF pending = {} THEN [w EXCEPT !.timers = @ \ {id}]
  ELSE [Failed(w, CHOOSE c \in pending : TRUE, "The request timed out")
          EXCEPT !.timers = @ \ {id}, !.event = "timedOut"]

WidgetStep(w) ==
  /\ widget' = w
  /\ UNCHANGED <<engineVars, last, source, config, requests>>

HandleInputChange == \E value \in Inputs : WidgetStep(handleInputChange(widget, value))

\* A submit event of the form; the number of requests sent is bounded.
HandleSubmit ==
  /\ Submitted(widget).sent <= MaxSubmits
  /\ WidgetStep(Submitted(widget))

FetchResolves ==
  \E call \in widget.calls : call.pc = "fetch" /\ WidgetStep(Resolved(widget, call))

FetchRejects ==
  \E call \in widget.calls :
    call.pc = "fetch" /\ WidgetStep(Failed(widget, call, "Failed to fetch"))

TimerFires ==
  \E id \in widget.timers :
    WidgetStep(Aborted(widget, id, {c \in widget.calls : c.id = id /\ c.pc = "fetch"}))

BodySettles ==
  \E call \in widget.calls, outcome \in BodyOutcomes :
    call.pc = "text" /\ WidgetStep(BodySettled(widget, call, outcome))

WidgetNext ==
  \/ HandleInputChange
  \/ HandleSubmit
  \/ FetchResolves
  \/ FetchRejects
  \/ TimerFires
  \/ BodySettles

WidgetSpec == Init /\ [][WidgetNext]_vars

\* The timer of a request is set by the code and fires unless it is cleared;
\* the body of a response that has arrived is delivered or fails.
LiveWidgetSpec == WidgetSpec /\ WF_vars(TimerFires) /\ WF_vars(BodySettles)

(***************************************************************************)
(* Properties                                                              *)
(***************************************************************************)
RefundQuery == "How do I get a refund on my invoice?"
IsQuery == last.op = "getRelevantContext"
Answered == IsQuery /\ ~last.threw

\* C1: a getRelevantContext call on an engine that is not initialized throws
\* the not-initialized error, whatever the query, the history and maxChunks,
\* and leaves the corpus, the lookup map, the system prompt and the readiness
\* flag as they were.
C1_QueryBeforeInitializeFails ==
  [][(last'.op = "getRelevantContext" /\ ~isInitialized)
       => /\ last'.threw
          /\ last'.out.error = "RAG Service not initialized"
          /\ ~isInitialized'
          /\ chunks' = chunks
          /\ chunkMap' = chunkMap
          /\ systemPrompt' = systemPrompt]_vars

C1_Witness ==
  /\ IsQuery /\ ~last.ready /\ last.threw
  /\ last.query = RefundQuery /\ last.maxChunks = 2
  /\ ~isInitialized /\ chunks = <<>>

\* The requests whose handler is past the isReady() test of its retrieval branch.
PastEnsureInitialized ==
  {r \in Requests : requests[r].needsRAG
                      /\ requests[r].pc \in {"retrieve", "primary", "fallback", "done"}}

\* C2: under every interleaving of chat requests that fetch the config, test
\* isReady() and call initialize on the shared engine, the corpus is built
\* exactly once: at most one initialize call has assigned the corpus, at most
\* one request in flight has called initialize, and once a request is past the
\* test the corpus has been built, by the call the engine records, and the
\* engine is Ready.
C2_CorpusBuiltOnce ==
  /\ source.count <= 1
  /\ Cardinality({r \in Requests : requests[r].calledInitialize}) <= 1
  /\ PastEnsureInitialized # {}
       => /\ source.count = 1
          /\ isInitialized
          /\ Len(chunks) = Len(source.kb)
          /\ systemPrompt = source.prompt

\* One request has called initialize and has not resumed yet; meanwhile another
\* one, which needs the corpus too, made the isReady() test, skipped initialize
\* and went on to the model.
C2_Witness ==
  \E r1, r2 \in Requests :
    /\ r1 # r2
    /\ requests[r1].pc = "retrieve" /\ requests[r1].calledInitialize
    /\ requests[r2].pc = "primary" /\ requests[r2].needsRAG
    /\ ~requests[r2].calledInitialize
    /\ includes(requests[r2].context, "## ")
    /\ source.count = 1

\* C3: an initialize call with the chunks and the system prompt of the call
\* that built the corpus leaves the corpus as it was (same size, order and
\* content, the related sets included), one chunk per input chunk, and the
\* engine Ready.
C3_InitializeTwiceIsIdempotent ==
  [][(last'.op = "initialize" /\ isInitialized /\ last'.sameAsSource)
       => /\ chunks' = chunks
          /\ Len(chunks') = Len(source.kb)
          /\ \A i \in 1..Len(chunks') : chunks'[i].id = source.kb[i].id
          /\ isInitialized']_vars

C3_Witness ==
  /\ last.op = "initialize" /\ last.ready /\ last.sameAsSource
  /\ isInitialized /\ Len(chunks) = 3

\* C4: isReady() is false on a new engine, true after an initialize call that
\* completed, and once true it is true after every later call.
C4_ReadyIsReachedAndKept ==
  [][/\ (last.op = "new" => ~isReady(This))
     /\ ((last'.op = "initialize" /\ ~last'.threw) => isReady(This)')
     /\ (isReady(This) => isReady(This)')]_vars

C4_Witness ==
  /\ isReady(This) /\ last.ready
  /\ last.op = "initialize" /\ ~last.sameAsSource

\* C5 as stated: on the corpus [x "Billing", y "Login"] the refund query with
\* maxChunks = 1 returns the single section "Billing": x is the only primary
\* result and the text holds no section for y.
C5_SingleBillingSection ==
  (/\ Answered
   /\ source.kb = <<ChunkX, ChunkY>>
   /\ last.query = RefundQuery /\ last.history = "" /\ last.maxChunks = 1)
  => /\ last.out.text = "## Billing\n\ninvoice payment refund"
     /\ last.out.topChunkIds = <<"x">>
     /\ last.out.combinedChunkIds = <<"x">>
     /\ ~includes(last.out.text, "Login")

\* C5: on the corpus [x "Billing", y "Login"] the refund query with
\* maxChunks = 1 has x as its only primary result, and returns two sections:
\* "Billing", then "Login (Related Information)" for y, which initialize put
\* in x's related set because the similarity of the two signatures is above 0.6.
C5_BillingThenRelatedLogin ==
  (/\ Answered
   /\ source.kb = <<ChunkX, ChunkY>>
   /\ last.query = RefundQuery /\ last.history = "" /\ last.maxChunks = 1)
  => /\ last.out.topChunkIds = <<"x">>
     /\ last.out.combinedChunkIds = <<"x", "y">>
     /\ chunks[1].relatedChunks = Related(<<"y">>)
     /\ ScoreGreater(cosineSimilarity(chunks[1].embedding, chunks[2].embedding).value,
                     SimilarityThreshold)
     /\ last.out.text = "## Billing\n\ninvoice payment refund"
                          \o "\n\n---\n\n"
                          \o "## Login (Related Information)\n\npassword reset account"

C5_Witness ==
  /\ Answered
  /\ source.kb = <<ChunkX, ChunkY>>
  /\ last.query = RefundQuery /\ last.history = "" /\ last.maxChunks = 1
  /\ last.out.topChunkIds = <<"x">>
  /\ includes(last.out.text, "## Login")

IsZeroVector(v) == \A i \in 1..Len(v.num) : v.num[i] = 0
ZeroScore == [nan |-> FALSE, d |-> 0, m |-> 1, b |-> 0]
IsNumber(score) == ~score.nan
IsZero(score) == IsNumber(score) /\ score.d = 0 /\ score.b = 0

\* C6: cosineSimilarity yields the score 0, not NaN, when one of its vectors
\* has norm 0: no candidate of a getRelevantContext call has the score NaN, and
\* the similarity of a corpus chunk of norm 0 to any corpus chunk is 0.
C6_ZeroNormScoresZero ==
  /\ Answered => \A i \in 1..Len(last.out.similarities) :
                   IsNumber(last.out.similarities[i].score)
  /\ \A i, j \in 1..Len(chunks) :
       IsZeroVector(chunks[i].embedding)
         => IsZero(cosineSimilarity(chunks[i].embedding, chunks[j].embedding).value)

\* C7: on a Ready engine getRelevantContext does not throw, whatever the query
\* and the history, and on a corpus of size 0 it returns the empty string.
C7_ReadyQueryNeverFails ==
  (IsQuery /\ last.ready)
  => /\ ~last.threw
     /\ last.out.error = ""
     /\ Len(chunks) = 0 => last.out.text = ""

C7_Witness ==
  /\ IsQuery /\ last.ready /\ ~last.threw
  /\ last.query = "" /\ last.history = ""
  /\ \E i \in 1..Len(chunks) : IsZeroVector(chunks[i].embedding)

\* s < t as numbers: false when one of them is NaN.
ScoreLess(s, t) == IsNumber(s) /\ IsNumber(t) /\ ScoreGreater(t, s)

\* C8: the primary results are the maxChunks highest-scoring candidates in
\* descending order of boosted score: no primary result has a lower score than
\* the one after it, and none has a lower score than a candidate left out.
C8_PrimaryAreHighestScoring ==
  Answered =>
    LET ranked == last.out.ranked
        k      == Len(last.out.top)
    IN /\ \A i \in 1..(k - 1) : ~ScoreLess(ranked[i].score, ranked[i + 1].score)
       /\ \A i \in 1..k : \A j \in (k + 1)..Len(ranked) :
            ~ScoreLess(ranked[i].score, ranked[j].score)

\* s = t as numbers: false when one of them is NaN.
ScoreEqual(s, t) ==
  IsNumber(s) /\ IsNumber(t) /\ ~ScoreGreater(s, t) /\ ~ScoreGreater(t, s)

\* C9: of two candidates with equal boosted scores the one earlier in the
\* corpus comes first in the ranking, so the primary results hold a candidate
\* only if every earlier candidate of the same score is among them too.
C9_TiesKeepCorpusOrder ==
  Answered =>
    LET ranked == last.out.ranked
    IN \A i, j \in 1..Len(ranked) :
         (i < j /\ ScoreEqual(ranked[i].score, ranked[j].score))
           => ranked[i].pos < ranked[j].pos

\* C10: a candidate's boosted score is its cosine similarity to the signature
\* of query + " " + history, plus 0.15 for each curated keyword that is a
\* case-insensitive substring of that text, plus 0.05 for each auto-keyword
\* that is in the text's extracted keywords; it is never below the similarity.
C10_BoostedScore ==
  Answered =>
    LET text == last.query \o " " \o last.history
        kws  == Range(extractKeywords(text))
    IN /\ Len(last.out.similarities) = Len(chunks)
       /\ \A i \in 1..Len(chunks) :
            LET c      == chunks[i]
                base   == cosineSimilarity(createSimpleEmbedding(text), c.embedding).value
                manual == Cardinality({j \in 1..Len(c.keywords) :
                            includes(toLowerCase(text), toLowerCase(c.keywords[j]))})
                auto   == Cardinality({j \in 1..Len(c.autoKeywords) : c.autoKeywords[j] \in kws})
                score  == last.out.similarities[i].score
            IN /\ last.out.similarities[i].pos = i
               /\ score.nan = base.nan
               /\ IsNumber(score) =>
                    /\ score.d = base.d /\ score.m = base.m
                    /\ score.b = 3 * manual + 1 * auto
                    /\ ~ScoreLess(score, base)

C10_Witness ==
  /\ Answered
  /\ last.query = RefundQuery
  /\ \E i \in 1..Len(chunks) :
       /\ chunks[i].id = "z"
       /\ chunks[i].keywords = <<"Refund">>
       /\ last.out.similarities[i].score.b = 3 * 1 + 1 * 2

\* The primary results of the answered call, as chunks, and the identifiers
\* and chunks of the sections after them.
PrimaryChunks == [i \in 1..Len(last.out.top) |-> chunks[last.out.top[i].pos]]
SecondaryIds ==
  SubSeq(last.out.combinedChunkIds, Len(last.out.top) + 1, Len(last.out.combinedChunkIds))
SecondaryChunks == [i \in 1..Len(SecondaryIds) |-> chunkMap[SecondaryIds[i]]]

\* C11: every secondary result is a chunk whose identifier is in the related
\* set of some primary result; no secondary result is a primary result, the
\* secondary results are pairwise distinct, and no chunk is in two sections.
C11_SecondaryAreRelatedAndNew ==
  Answered =>
    /\ Len(last.out.combinedChunkIds) >= Len(last.out.top)
    /\ \A i \in 1..Len(SecondaryIds) :
         /\ SecondaryIds[i] \in DOMAIN chunkMap
         /\ \E p \in 1..Len(PrimaryChunks) :
              /\ PrimaryChunks[p].relatedChunks.some
              /\ arrayIncludes(PrimaryChunks[p].relatedChunks.ids, SecondaryIds[i])
         /\ \A p \in 1..Len(PrimaryChunks) :
              /\ PrimaryChunks[p].id # SecondaryIds[i]
              /\ PrimaryChunks[p] # SecondaryChunks[i]
         /\ \A j \in 1..Len(SecondaryIds) :
              i # j => /\ SecondaryIds[i] # SecondaryIds[j]
                       /\ SecondaryChunks[i] # SecondaryChunks[j]
    /\ \A p, q \in 1..Len(PrimaryChunks) :
         p # q => last.out.top[p].pos # last.out.top[q].pos

\* The refund question answered from the corpus [w, y, n, z] with one primary
\* result: w, whose curated list names itself and names y twice.
C11_Witness ==
  /\ Answered
  /\ last.maxChunks = 1
  /\ IdsOf(chunks) = <<"w", "y", "n", "z">>
  /\ last.out.topChunkIds = <<"w">>
  /\ PrimaryChunks[1].relatedChunks.ids = <<"y", "ghost", "w", "n", "y", "z">>
  /\ SecondaryIds = <<"y", "n">>

\* The number of candidates of a query: the corpus, cut at MaxCandidates.
PoolSize == IF Len(chunks) > MaxCandidates THEN MaxCandidates ELSE Len(chunks)

\* C12: with maxChunks = k >= 0 and a pool of at least k candidates the output
\* has exactly k primary sections, at most 2 secondary ones and so at most
\* k + 2 in all; with a pool of fewer than k candidates every candidate is a
\* primary section.
C12_SectionCounts ==
  (Answered /\ last.maxChunks >= 0) =>
    /\ Len(last.out.topChunkIds) = Len(last.out.top)
    /\ PoolSize >= last.maxChunks => Len(last.out.top) = last.maxChunks
    /\ Len(SecondaryIds) <= 2
    /\ Len(last.out.combinedChunkIds) <= last.maxChunks + 2
    /\ PoolSize < last.maxChunks =>
         \A i \in 1..PoolSize : \E p \in 1..Len(last.out.top) : last.out.top[p].pos = i

\* One primary result whose related list resolves to three chunks of the
\* corpus that are not primary results: two of them are added.
C12_Witness ==
  /\ Answered
  /\ last.maxChunks = 1
  /\ Len(last.out.top) = 1
  /\ Cardinality({id \in Range(last.out.relatedChunkIds) : id \in DOMAIN chunkMap}) = 3
  /\ Len(SecondaryIds) = 2
  /\ Len(last.out.combinedChunkIds) = 3

\* The section of a chunk as the output shows it, with or without the note.
SectionOf(chunk, secondary) ==
  "## " \o chunk.title \o (IF secondary THEN " (Related Information)" ELSE "")
        \o "\n\n" \o chunk.content

\* C13: the returned text is the sections of the primary results in rank
\* order followed by those of the secondary results in resolution order,
\* joined by the '---' delimiter, and a section's title carries the note
\* ' (Related Information)' exactly when the section is a secondary result.
C13_PrimaryThenSecondarySections ==
  Answered =>
    LET k        == Len(last.out.top)
        resolved == SelectSeq(last.out.relatedChunkIds, LAMBDA id : id \in DOMAIN chunkMap)
        sections == [i \in 1..Len(last.out.combinedChunkIds) |->
                       IF i <= k THEN SectionOf(PrimaryChunks[i], FALSE)
                       ELSE SectionOf(SecondaryChunks[i - k], TRUE)]
    IN /\ k <= Len(last.out.ranked)
       /\ last.out.top = SubSeq(last.out.ranked, 1, k)
       /\ Len(SecondaryIds) <= Len(resolved)
       /\ SecondaryIds = SubSeq(resolved, 1, Len(SecondaryIds))
       /\ last.out.text = Join(sections, "\n\n---\n\n")

\* Two primary results followed by two secondary ones.
C13_Witness ==
  /\ Answered
  /\ last.out.topChunkIds = <<"w", "y">>
  /\ SecondaryIds = <<"n", "z">>
  /\ last.out.text = "## Refund\n\nhow do I get a refund on my invoice\n\n---\n\n"
                     \o "## Login\n\npassword reset account\n\n---\n\n"
                     \o "## 2024 (Related Information)\n\n10 + 20 = 30\n\n---\n\n"
                     \o "## Billing (Related Information)\n\ninvoice payment refund"

\* C14: only the first 50 chunks of the corpus are scored, so every primary
\* result is one of them; a chunk at position 51 or later is in the output
\* only as a secondary result.
C14_PrimaryAmongFirstFifty ==
  Answered =>
    /\ Len(last.out.similarities) = PoolSize
    /\ PoolSize <= 50
    /\ \A i \in 1..Len(last.out.similarities) : last.out.similarities[i].pos = i
    /\ \A p \in 1..Len(last.out.top) :
         /\ last.out.top[p].pos \in 1..50
         /\ last.out.topChunkIds[p] = chunks[last.out.top[p].pos].id
    /\ \A i \in 51..Len(chunks) :
         \A j \in 1..Len(last.out.combinedChunkIds) :
           last.out.combinedChunkIds[j] = chunks[i].id => j > Len(last.out.top)

\* The refund question on a corpus whose chunk repeating the question stands
\* at position 51: fillers are the primary results and that chunk is a
\* secondary one.
C14_Witness ==
  /\ Answered
  /\ last.query = RefundQuery
  /\ last.maxChunks = 2
  /\ Len(chunks) = 52
  /\ chunks[51].id = "h"
  /\ Len(last.out.top) = 2
  /\ ~arrayIncludes(last.out.topChunkIds, "h")
  /\ SecondaryIds = <<"h">>

\* C15: after initialize every chunk whose input list of related chunks was
\* non-empty carries exactly that list, so inference has assigned only to
\* chunks whose list was absent or empty; no other field of a chunk differs
\* from the input.
C15_CuratedRelationsKept ==
  isInitialized =>
    /\ Len(chunks) = Len(source.kb)
    /\ \A i \in 1..Len(chunks) :
         LET given == source.kb[i]
         IN /\ (given.relatedChunks.some /\ given.relatedChunks.ids # <<>>)
                 => chunks[i].relatedChunks = given.relatedChunks
            /\ chunks[i].relatedChunks # given.relatedChunks
                 => (~given.relatedChunks.some \/ given.relatedChunks.ids = <<>>)
            /\ chunks[i].id = given.id
            /\ chunks[i].title = given.title
            /\ chunks[i].content = given.content
            /\ chunks[i].keywords = given.keywords

\* The corpus [x, z]: z, whose text is that of x, keeps its curated list,
\* and x, given none, has been assigned z.
C15_Witness ==
  /\ isInitialized
  /\ source.kb = <<ChunkX, ChunkZ>>
  /\ chunks[2].relatedChunks = Related(<<"y", "ghost">>)
  /\ chunks[1].relatedChunks = Related(<<"z">>)

\* The keywords of a chunk as a set: curated and automatic together.
KeywordSet(chunk) == Range(chunk.keywords) \cup Range(chunk.autoKeywords)

\* similarity > 0.6 for the signatures of two chunks.
SimilarSignatures(a, b) ==
  ScoreGreater(cosineSimilarity(a.embedding, b.embedding).value, SimilarityThreshold)

\* C16: for a chunk A given no curated relations and a chunk B with another
\* identifier, B is in A's inferred related set exactly when the two keyword
\* sets share at least 2 keywords (a keyword counting once however often it
\* occurs in A's lists) or the cosine similarity of the signatures exceeds
\* 0.6; A is never in its own inferred set.
C16_InferredBySetOverlapOrSimilarity ==
  isInitialized =>
    \A i \in 1..Len(chunks) :
      (~source.kb[i].relatedChunks.some \/ source.kb[i].relatedChunks.ids = <<>>) =>
        /\ chunks[i].relatedChunks.some
        /\ ~arrayIncludes(chunks[i].relatedChunks.ids, chunks[i].id)
        /\ \A j \in 1..Len(chunks) :
             chunks[j].id # chunks[i].id =>
               (arrayIncludes(chunks[i].relatedChunks.ids, chunks[j].id)
                  <=> \/ Cardinality(KeywordSet(chunks[i]) \cap KeywordSet(chunks[j])) >= 2
                      \/ SimilarSignatures(chunks[i], chunks[j]))

\* The engine as the initialize call that built the corpus left it.
NewEngine == [chunks |-> <<>>, isInitialized |-> FALSE, systemPrompt |-> "", chunkMap |-> <<>>]
AsBuilt == initialize(NewEngine, source.kb, source.prompt).this

\* C17: a getRelevantContext call on a Ready engine leaves the corpus (order,
\* content, signatures, keyword lists, related sets), the lookup map, the
\* system prompt and the readiness flag unchanged, so a Ready engine is in
\* every state the engine as built, however many queries were made, and each
\* call returns what it returns when made alone on that engine.
C17_QueryIsPureRead ==
  /\ [](isInitialized => This = AsBuilt)
  /\ [][(last'.op = "getRelevantContext" /\ isInitialized)
          => /\ chunks' = chunks
             /\ chunkMap' = chunkMap
             /\ systemPrompt' = systemPrompt
             /\ isInitialized'
             /\ last'.out = getRelevantContext(This, last'.query, last'.history,
                                               last'.maxChunks)]_vars

\* A query answered on a Ready engine whose best candidate is not the first
\* chunk of the corpus; the corpus is in the order of its input.
C17_Witness ==
  /\ Answered /\ last.ready
  /\ last.query = RefundQuery /\ last.maxChunks = 2
  /\ Len(last.out.top) = 2
  /\ last.out.ranked[1].pos # 1
  /\ IdsOf(chunks) = IdsOf(source.kb)
  /\ This = AsBuilt

\* C18: in every Ready state the identifiers of the corpus chunks are pairwise
\* distinct, the keys of the lookup map are exactly those identifiers, and
\* each key maps to the corpus chunk that carries it.
C18_IdsDistinctAndMapped ==
  isInitialized =>
    /\ \A i, j \in 1..Len(chunks) : i # j => chunks[i].id # chunks[j].id
    /\ DOMAIN chunkMap = {chunks[i].id : i \in 1..Len(chunks)}
    /\ \A i \in 1..Len(chunks) : chunkMap[chunks[i].id] = chunks[i]

\* C19: in every Ready state getSystemPrompt() returns the system prompt that
\* was passed to the initialize call that built the current corpus, whatever
\* initialize calls with other prompts were made since.
C19_PromptOfTheBuildingCall ==
  /\ isInitialized => getSystemPrompt(This) = source.prompt
  /\ (last.op = "getSystemPrompt" /\ last.ready) => last.result = source.prompt

\* getSystemPrompt() answered on a Ready engine whose corpus was built with
\* the second prompt.
C19_Witness ==
  /\ last.op = "getSystemPrompt" /\ last.ready
  /\ isInitialized /\ Len(chunks) > 0
  /\ source.count = 1 /\ source.prompt = "You are Mary."
  /\ last.result = "You are Mary."

\* The number of occurrences of a character in a text.
Occurrences(text, c) == Cardinality({p \in 1..Len(text) : SubSeq(text, p, p) = c})

\* The text with the character c put in after its first p characters.
InsertedAt(text, p, c) == SubSeq(text, 1, p) \o c \o SubSeq(text, p + 1, Len(text))

\* C20: createSimpleEmbedding returns 26 entries, the i-th being the number
\* of occurrences of the i-th letter a-z in the lowercased text divided by
\* the number of letters counted; the entries sum to 1 when the text holds a
\* letter and are all 0 otherwise, and a character outside a-z (after
\* lowercasing) put anywhere in the text does not change the result.  The
\* entries are the exact fractions num[i]/den.
C20_LetterFrequencies ==
  last.op = "createSimpleEmbedding" =>
    LET v       == last.result
        lower   == toLowerCase(last.text)
        letters == Cardinality({p \in 1..Len(lower) : SubSeq(lower, p, p) \in LowerCaseSet})
    IN /\ Len(v.num) = 26
       /\ v.den > 0
       /\ \A i \in 1..26 :
            /\ letters > 0 => v.num[i] * letters = Occurrences(lower, LowerCaseLetters[i]) * v.den
            /\ letters = 0 => v.num[i] = 0
       /\ letters > 0 => SumTo(v.num, 26) = v.den
       /\ \A c \in {"1", " ", "-", "{"} : \A p \in 0..Len(last.text) :
            createSimpleEmbedding(InsertedAt(last.text, p, c)) = v

\* The text "aB1": one a and one b of two letters, the digit not counted.
C20_Witness ==
  /\ last.op = "createSimpleEmbedding"
  /\ last.text = "aB1"
  /\ last.result.num[1] = 1 /\ last.result.num[2] = 1 /\ last.result.num[26] = 0
  /\ last.result.den = 2

\* C21: extractKeywords returns at most 10 pairwise distinct tokens, none of
\* length 2 or less and none a stop word; given the same text again it
\* returns the same list in the same order, and the empty text yields the
\* empty list.
C21_KeywordsBoundedAndFiltered ==
  last.op = "extractKeywords" =>
    /\ Len(last.result) <= 10
    /\ \A i, j \in 1..Len(last.result) : i # j => last.result[i] # last.result[j]
    /\ \A i \in 1..Len(last.result) :
         /\ Len(last.result[i]) > 2
         /\ last.result[i] \notin stopWords
    /\ extractKeywords(last.text) = last.result
    /\ last.text = "" => last.result = <<>>

\* A text of thirteen words, among them a stop word, a word of two letters
\* and one word in two spellings: eleven distinct tokens pass the filter and
\* ten are returned.
C21_Witness ==
  /\ last.op = "extractKeywords"
  /\ last.text = "the it\n Tax " \o TailWords
  /\ last.result = <<"tax", "amy", "bob", "cat", "dog", "elk", "fox", "gnu", "hen", "ivy">>

\* The number of occurrences of a token in a list of tokens, and the
\* position of its first occurrence.
Frequency(tokens, t) == Cardinality({p \in 1..Len(tokens) : tokens[p] = t})
FirstOccurrence(tokens, t) == CHOOSE p \in 1..Len(tokens) :
                                tokens[p] = t /\ \A q \in 1..(p - 1) : tokens[q] # t

\* Token s comes before token t: it is more frequent, or as frequent and
\* first met earlier.
ComesBefore(tokens, s, t) ==
  \/ Frequency(tokens, s) > Frequency(tokens, t)
  \/ /\ Frequency(tokens, s) = Frequency(tokens, t)
     /\ FirstOccurrence(tokens, s) < FirstOccurrence(tokens, t)

\* C22: the list extractKeywords returns is in descending order of token
\* frequency, tokens of equal frequency in the order of their first
\* occurrence in the text, and when more than 10 tokens remain after the
\* filter the 10 returned are the first 10 of that order.
C22_KeywordsByFrequencyThenFirstOccurrence ==
  last.op = "extractKeywords" =>
    LET tokens == Words(last.text)
        r      == last.result
    IN /\ \A i \in 1..Len(r) : r[i] \in Range(tokens)
       /\ \A i, j \in 1..Len(r) : i < j => ComesBefore(tokens, r[i], r[j])
       /\ Len(r) = IF Cardinality(Range(tokens)) > 10 THEN 10
                   ELSE Cardinality(Range(tokens))
       /\ \A t \in Range(tokens) \ Range(r) :
            \A i \in 1..Len(r) : ComesBefore(tokens, r[i], t)

\* Eleven distinct tokens pass the filter; "bob", met after "tax" but twice,
\* comes first, the others follow in the order of the text and the last one
\* is left out.
C22_Witness ==
  /\ last.op = "extractKeywords"
  /\ last.text = "the Tax bob " \o TailWords
  /\ Frequency(Words(last.text), "bob") = 2
  /\ Cardinality(Range(Words(last.text))) = 11
  /\ last.result = <<"bob", "tax", "amy", "cat", "dog", "elk", "fox", "gnu", "hen", "ivy">>

\* C23: cosineSimilarity throws whenever its two vectors differ in length (and
\* only then), and neither initialize nor getRelevantContext ends in that
\* error: the signature of every corpus chunk and of every combined query
\* has exactly 26 entries.
C23_LengthMismatchThrowsAndIsUnreachable ==
  /\ last.op = "cosineSimilarity" =>
       /\ last.threw <=> Len(last.vecA.num) # Len(last.vecB.num)
       /\ last.threw => last.error = "Vectors must have the same length"
  /\ \A i \in 1..Len(chunks) : Len(chunks[i].embedding.num) = 26
  /\ last.op = "initialize" => ~last.threw
  /\ IsQuery =>
       /\ last.out.error # "Vectors must have the same length"
       /\ Len(createSimpleEmbedding(last.query \o " " \o last.history).num) = 26

\* cosineSimilarity applied to a signature and a vector of one entry.
C23_Witness ==
  /\ last.op = "cosineSimilarity"
  /\ Len(last.vecA.num) = 26 /\ Len(last.vecB.num) = 1
  /\ last.threw
  /\ last.error = "Vectors must have the same length"

\* The requests whose handler has called getRelevantContext and waits for a
\* model.
AtModelWithContext ==
  {r \in Requests : requests[r].needsRAG /\ requests[r].pc \in {"primary", "fallback"}}

\* The messages before the last one, at most 6 of them, as positions.
RecentPositions(messages) ==
  {p \in 1..(Len(messages) - 1) : p >= Len(messages) - 6}

\* C24: the conversationHistory the chat handler passes to getRelevantContext
\* is made of at most the 6 messages just before the last message of the
\* request, in their order, each as 'role: content', joined by newlines; the
\* last message is never in it, and it is empty for a single message.
C24_HistoryIsTheSixMessagesBeforeTheLast ==
  \A r \in AtModelWithContext :
    LET messages == requests[r].body.messages
        first    == IF Len(messages) - 6 < 1 THEN 1 ELSE Len(messages) - 6
        lines    == [i \in 1..Cardinality(RecentPositions(messages)) |->
                       messages[first + i - 1].role \o ": "
                         \o messages[first + i - 1].content]
    IN /\ Cardinality(RecentPositions(messages)) <= 6
       /\ requests[r].history = Join(lines, "\n")
       /\ Len(messages) = 1 => requests[r].history = ""

\* A request of eight messages: the history holds the second to the seventh.
C24_Witness ==
  \E r \in AtModelWithContext :
    /\ Len(requests[r].body.messages) = 8
    /\ requests[r].history =
         "assistant: b\nuser: c\nuser: d\nuser: e\nuser: f\nassistant: g"
    /\ ~includes(requests[r].history, "bio")
    /\ ~includes(requests[r].history, ": a")


\* The pcs of a chat request whose handler is waiting or has returned.
HandlerPcs == {"idle", "fetchConfig", "gotConfig", "retrieve", "primary", "fallback", "done"}

\* The engine call that request r's next step makes throws: initialize on an
\* engine that is not ready, getRelevantContext otherwise.
EngineWillThrow(r) ==
  \/ /\ requests[r].pc = "gotConfig" /\ ~isReady(This)
     /\ initialize(This, requests[r].fetched.knowledgeBase,
                   requests[r].fetched.systemPrompt).threw
  \/ /\ \/ requests[r].pc = "gotConfig" /\ isReady(This)
        \/ requests[r].pc = "retrieve"
     /\ getRelevantContext(This, UserQuery(requests[r].body.messages),
                           recentHistory(requests[r].body.messages), ContextChunks).threw

EngineErrors ==
  {"initialize threw", NotInitialized.error, ThrewLengthMismatch.error, ThrewTypeError.error}

\* C25: when the engine call of a chat request throws (initialize, or
\* getRelevantContext with the not-initialized error or any other), the
\* handler's step ends with that request answered, status 500 and the error
\* as its detail; no request ever leaves its handler without a response, the
\* other requests are left as they were, and a getRelevantContext that threw
\* leaves the engine as it was.
C25_EngineErrorsAreAnswered ==
  /\ [](\A r \in Requests : requests[r].pc \in HandlerPcs)
  /\ [][\A r \in Requests :
          (requests'[r] # requests[r] /\ EngineWillThrow(r))
            => /\ requests'[r].pc = "done"
               /\ requests'[r].status = 500
               /\ requests'[r].reply \in EngineErrors
               /\ \A o \in Requests \ {r} : requests'[o] = requests[o]
               /\ (requests[r].pc = "retrieve" \/ isReady(This)) => This' = This]_vars

\* One request was answered 500 after initialize threw, and a later one, after
\* the configuration was replaced, got its context from the engine.
C25_Witness ==
  \E r1, r2 \in Requests :
    /\ requests[r1].pc = "done" /\ requests[r1].status = 500
    /\ requests[r1].reply = "initialize threw"
    /\ requests[r2].pc = "primary" /\ requests[r2].calledInitialize
    /\ includes(requests[r2].context, "## Billing")


\* C26 as stated: whenever the chat handler's call of initialize returns
\* without throwing (the handler goes on to the retrieval), isReady() is true
\* afterwards, also when an earlier initialize call threw part-way through.
C26_ReturnedInitializeIsReady ==
  [][\A r \in Requests :
       (/\ requests[r].pc = "gotConfig" /\ ~isReady(This)
        /\ requests'[r].pc = "retrieve")
         => isReady(This)']_vars


\* C27: on a Ready engine an initialize call, with the chunks and the prompt
\* of the first successful call or with others, changes neither the corpus
\* nor the lookup map nor the system prompt nor the flag, and builds nothing;
\* so in every Ready state the corpus and the prompt are those of the one call
\* that built them.
C27_InitializeOnReadyEngineChangesNothing ==
  /\ [](isInitialized => /\ source.count = 1
                         /\ systemPrompt = source.prompt
                         /\ IdsOf(chunks) = IdsOf(source.kb))
  /\ [][(last'.op = "initialize" /\ isInitialized)
          => /\ This' = This
             /\ source' = source
             /\ ~last'.built /\ ~last'.threw]_vars

\* An initialize call was made on a Ready engine with other chunks or another
\* prompt than the ones the corpus was built from.
C27_Witness ==
  /\ last.op = "initialize" /\ last.ready /\ ~last.sameAsSource
  /\ isInitialized /\ Len(chunks) = 2
  /\ source.prompt = "You are Mary."


RECURSIVE RelatedListsOf(_)
\* The related lists of the chunks of arr, one after the other.
RelatedListsOf(arr) ==
  IF Len(arr) = 0 THEN <<>>
  ELSE (IF arr[1].relatedChunks.some THEN arr[1].relatedChunks.ids ELSE <<>>)
       \o RelatedListsOf(SubSeq(arr, 2, Len(arr)))

\* The positions of list that hold, for the first time, an identifier that is
\* not a primary result and that the lookup map resolves.
ResolvingPositions(list) ==
  {i \in 1..Len(list) : /\ ~arrayIncludes(last.out.topChunkIds, list[i])
                        /\ list[i] \in DOMAIN chunkMap
                        /\ \A j \in 1..(i - 1) : list[j] # list[i]}

\* C28: an answered call has, as secondary results, the first two (or all,
\* when fewer) of the identifiers that resolve in the lookup map, in the order
\* in which the primary results' related lists hold them for the first time;
\* an identifier that does not resolve gives no section and takes no place.
C28_UnresolvedIdsTakeNoSlot ==
  Answered =>
    LET list     == RelatedListsOf(Array(PrimaryChunks))
        resolved == ResolvingPositions(list)
    IN /\ Len(SecondaryIds) = (IF Cardinality(resolved) < 2 THEN Cardinality(resolved) ELSE 2)
       /\ \A k \in 1..Len(SecondaryIds) :
            \E i \in resolved : /\ Cardinality({j \in resolved : j < i}) = k - 1
                                /\ SecondaryIds[k] = list[i]
       /\ \A k \in 1..Len(last.out.combinedChunkIds) :
            last.out.combinedChunkIds[k] \in DOMAIN chunkMap

\* The primary result w lists y, ghost, w, n, y, z: ghost resolves to nothing
\* and the secondary results are y and n.
C28_Witness ==
  /\ Answered /\ last.maxChunks = 1
  /\ last.out.topChunkIds = <<"w">>
  /\ last.out.relatedChunkIds = <<"y", "ghost", "n", "z">>
  /\ "ghost" \notin DOMAIN chunkMap
  /\ SecondaryIds = <<"y", "n">>
  /\ ~includes(last.out.text, "ghost")


\* C29: a chat request asks the fallback model only after its primary attempt
\* failed, and at most once; a request whose primary attempt succeeded or was
\* answered as a rate limit has asked the primary model alone and is answered;
\* and when both attempts failed the request is answered with the fixed
\* apology marked timedOut.
C29_FallbackOnlyAfterPrimaryFailure ==
  \A r \in Requests :
    LET req == requests[r] IN
      /\ req.asked \in {<<>>, <<"primary">>, <<"primary", "fallback">>}
      /\ Len(req.results) <= Len(req.asked)
      /\ Len(req.asked) = 2 => (Len(req.results) >= 1 /\ req.results[1] = "failed")
      /\ (Len(req.results) >= 1 /\ req.results[1] \in {"ok", "rateLimit"})
           => /\ req.asked = <<"primary">>
              /\ req.pc = "done"
              /\ req.status = (IF req.results[1] = "ok" THEN 200 ELSE 429)
      /\ req.pc = "fallback" <=> (req.asked = <<"primary", "fallback">> /\ Len(req.results) = 1)
      /\ req.results = <<"failed", "failed">>
           => /\ req.pc = "done" /\ req.status = 200
              /\ req.reply = "apology, timedOut"

\* One request was answered with the apology after both attempts failed, and
\* another, whose primary attempt was answered as a rate limit, never asked
\* the fallback model.
C29_Witness ==
  \E r1, r2 \in Requests :
    /\ requests[r1].pc = "done" /\ requests[r1].results = <<"failed", "failed">>
    /\ requests[r1].asked = <<"primary", "fallback">>
    /\ requests[r1].reply = "apology, timedOut"
    /\ requests[r2].pc = "done" /\ requests[r2].results = <<"rateLimit">>
    /\ requests[r2].asked = <<"primary">> /\ requests[r2].status = 429


====
